---- MODULE Spec2Model ----
(***************************************************************************)
(* Model of the OVH server-offer engine of run-tbot (package ovh):         *)
(* GetTopOffers and its helpers indexCatalog, getCatalogCurrency,          *)
(* priceForPlan, pickMandatoryAddonsForFQN, contains, computeTotalMonthly, *)
(* and of its caller HandleOVHCheck (package handlers) with                *)
(* Config.IsUserAllowed (package config).                                  *)
(*                                                                         *)
(* Strings are TLA+ strings (Len, SubSeq and \o act on them as on Go       *)
(* strings of ASCII bytes).  A Go map is a function whose DOMAIN is the    *)
(* key set.  A price in currency units (Go float64, micro-units divided by *)
(* 100000000) is the exact decimal [whole, frac] with                      *)
(* value = whole + frac / MicroPerUnit and 0 <= frac < MicroPerUnit; the   *)
(* rounding of float64 is modelled by F64 and F64Add, where the sum of     *)
(* computeTotalMonthly is studied on its own.                              *)
(***************************************************************************)
EXTENDS Integers, Sequences, FiniteSets, TLC

VARIABLES
    pc,              \* position of the GetTopOffers invocation (or of a helper call)
    datacenter,      \* parameter datacenter
    top,             \* parameter top
    availabilities,  \* local availabilities (the fetched feed)
    catalog,         \* local catalog (the fetched catalog)
    offers,          \* local offers
    result,          \* what GetTopOffers returned: [kind, offers, err]
    plan,            \* argument plan of a helper called on its own
    fqn,             \* argument fqn of a helper called on its own
    catalogCurrency, \* argument catalogCurrency of a helper called on its own
    ret,             \* what the helper returned
    fetches,         \* the feed fetches made so far, each with its outcome
    allowedUsers,    \* Config.AllowedUsers
    userID,          \* message.From.ID of the message a handler serves
    sent,            \* the bot.Send calls made so far, each with its outcome
    request,         \* the HTTP request webhookHandler serves: [Method, Body]
    response,        \* the status code written to the response (0: none written)
    invoked          \* RouteUpdate and the handlers called so far, in order

vars == <<pc, datacenter, top, availabilities, catalog, offers, result,
          plan, fqn, catalogCurrency, ret, fetches, allowedUsers, userID, sent,
          request, response, invoked>>

httpVars == <<request, response, invoked>>

botVars == <<allowedUsers, userID, sent, httpVars>>

(***************************************************************************)
(* Bounds of the model.                                                    *)
(***************************************************************************)
MaxAvail == 3       \* longest availability feed
MaxTop == 3         \* largest top requested
MaxTiers == 3       \* longest list of pricing tiers of a plan priced on its own
MaxFamilies == 2    \* most addon families of a plan resolved on its own

(***************************************************************************)
(* Prices.                                                                 *)
(***************************************************************************)
MicroPerUnit == 100000000

\* float64(pr.Price) / 100000000.0
ToActual(micro) ==
    [whole |-> micro \div MicroPerUnit, frac |-> micro % MicroPerUnit]

ZeroPrice == [whole |-> 0, frac |-> 0]

\* total += addonPrice
AddPrice(a, b) ==
    LET f == a.frac + b.frac
    IN [whole |-> a.whole + b.whole + (f \div MicroPerUnit), frac |-> f % MicroPerUnit]

PriceLessMutant(a, b) ==
    \/ a.whole > b.whole
    \/ a.whole = b.whole /\ a.frac > b.frac

\* the comparison of sort.Slice's less: offers[i].Price < offers[j].Price
PriceLess(a, b) ==
    \/ a.whole < b.whole
    \/ a.whole = b.whole /\ a.frac < b.frac

Less(a, b) == PriceLess(a.Price, b.Price)

(***************************************************************************)
(* priceForPlan                                                            *)
(***************************************************************************)
IsMonthly(pr) == pr.Interval = 1 /\ pr.IntervalUnit = "month"

IsLegacyMonthly(pr) == pr.Duration = "P1M"

\* first loop of priceForPlan: index of the first tier at or after i with
\* Interval == 1 and IntervalUnit == "month", 0 if there is none
RECURSIVE FirstMonthly(_, _)
FirstMonthly(pricings, i) ==
    IF i > Len(pricings) THEN 0
    ELSE IF IsMonthly(pricings[i]) THEN i
    ELSE FirstMonthly(pricings, i + 1)

\* second loop of priceForPlan: index of the first tier at or after i with
\* Duration == "P1M", 0 if there is none
RECURSIVE FirstLegacy(_, _)
FirstLegacy(pricings, i) ==
    IF i > Len(pricings) THEN 0
    ELSE IF IsLegacyMonthly(pricings[i]) THEN i
    ELSE FirstLegacy(pricings, i + 1)

priceForPlanMutant(p, currency) ==
    LET m == FirstMonthly(p.Pricings, 1)
        d == FirstLegacy(p.Pricings, 1)
    IN IF d # 0
       THEN [price |-> ToActual(p.Pricings[d].Price), currency |-> currency, err |-> FALSE]
       ELSE IF m # 0
       THEN [price |-> ToActual(p.Pricings[m].Price), currency |-> currency, err |-> FALSE]
       ELSE [price |-> ZeroPrice, currency |-> "", err |-> TRUE]

priceForPlan(p, currency) ==
    LET m == FirstMonthly(p.Pricings, 1)
        d == FirstLegacy(p.Pricings, 1)
    IN IF m # 0
       THEN [price |-> ToActual(p.Pricings[m].Price), currency |-> currency, err |-> FALSE]
       ELSE IF d # 0
       THEN [price |-> ToActual(p.Pricings[d].Price), currency |-> currency, err |-> FALSE]
       ELSE [price |-> ZeroPrice, currency |-> "", err |-> TRUE]

(***************************************************************************)
(* contains and the variant-suffix pattern                                 *)
(***************************************************************************)
Digits == {"0", "1", "2", "3", "4", "5", "6", "7", "8", "9"}

LowerLetters == {"a", "b", "c", "d", "e", "f", "g", "h", "i", "j", "k", "l", "m",
                 "n", "o", "p", "q", "r", "s", "t", "u", "v", "w", "x", "y", "z"}

\* the byte of s at position i (1-based)
Ch(s, i) == SubSeq(s, i, i)

\* regexp.MustCompile(regexp.QuoteMeta(substr)).MatchString(s): the literal
\* substr occurs somewhere in s
MatchString(s, substr) ==
    \E i \in 1..(Len(s) - Len(substr) + 1) : SubSeq(s, i, i + Len(substr) - 1) = substr

containsMutant(s, substr) ==
    Len(s) > 0 /\ Len(substr) > 0 /\ Len(substr) <= Len(s) /\ SubSeq(s, 1, Len(substr)) = substr

contains(s, substr) ==
    Len(s) > 0 /\ Len(substr) > 0 /\ MatchString(s, substr)

\* \d* and [a-z]+ are greedy: the first position at or after i whose byte is
\* not in class (Len(s) + 1 when the run reaches the end of s)
RECURSIVE SkipRun(_, _, _)
SkipRun(s, i, class) ==
    IF i <= Len(s) /\ Ch(s, i) \in class THEN SkipRun(s, i + 1, class) ELSE i

\* `-\d{2}[a-z]+\d*(-v\d+)?$` matches s from position i to the end of s.  The
\* classes of adjacent parts are disjoint, so the greedy parse is the only one.
SuffixMatchesAt(s, i) ==
    /\ i + 3 <= Len(s)
    /\ Ch(s, i) = "-"
    /\ Ch(s, i + 1) \in Digits
    /\ Ch(s, i + 2) \in Digits
    /\ Ch(s, i + 3) \in LowerLetters
    /\ LET j == SkipRun(s, i + 4, LowerLetters)
           k == SkipRun(s, j, Digits)
       IN \/ k = Len(s) + 1
          \/ /\ k + 2 <= Len(s)
             /\ Ch(s, k) = "-"
             /\ Ch(s, k + 1) = "v"
             /\ Ch(s, k + 2) \in Digits
             /\ SkipRun(s, k + 3, Digits) = Len(s) + 1

\* the leftmost position at or after i where the pattern matches, 0 if none
RECURSIVE LeftmostMatch(_, _)
LeftmostMatch(s, i) ==
    IF i > Len(s) THEN 0
    ELSE IF SuffixMatchesAt(s, i) THEN i
    ELSE LeftmostMatch(s, i + 1)

suffixPatternReplaceMutant(opt) ==
    LET i == LeftmostMatch(opt, 1)
    IN IF i = 0 THEN opt ELSE SubSeq(opt, 1, i)

\* suffixPattern.ReplaceAllString(opt, ""): the match reaches the end of opt,
\* so there is at most one and it is cut off
suffixPatternReplace(opt) ==
    LET i == LeftmostMatch(opt, 1)
    IN IF i = 0 THEN opt ELSE SubSeq(opt, 1, i - 1)

(***************************************************************************)
(* pickMandatoryAddonsForFQN                                               *)
(***************************************************************************)
EmptyMap == [x \in {} |-> ""]

\* a map that keeps the value a key was given first
MapPutKeepFirstMutant(m, k, v) ==
    [x \in (DOMAIN m) \cup {k} |-> IF x \in DOMAIN m THEN m[x] ELSE v]

\* m[k] = v on a Go map
MapPut(m, k, v) == [x \in (DOMAIN m) \cup {k} |-> IF x = k THEN v ELSE m[x]]

\* one candidate of the inner loop: TRUE when opt is chosen
optMatches(opt, id) ==
    /\ opt # ""
    /\ \/ contains(id, opt)
       \/ LET optBase == suffixPatternReplace(opt)
          IN optBase # opt /\ contains(id, optBase)

\* the inner loop over fam.Addons from index i on: the chosen code, "" if none
RECURSIVE chooseFrom(_, _, _)
chooseFrom(addons, i, id) ==
    IF i > Len(addons) THEN ""
    ELSE IF optMatches(addons[i], id) THEN addons[i]
    ELSE chooseFrom(addons, i + 1, id)

\* the value of chosen once the family was handled (default included)
chosenFor(fam, id) ==
    LET c == chooseFrom(fam.Addons, 1, id)
    IN IF c = "" THEN fam.Default ELSE c

famNameOf(fam) == IF fam.Name = "" THEN "unknown" ELSE fam.Name

\* the outer loop over plan.AddonFamilies from index i on, res being the map so far
RECURSIVE pickLoop(_, _, _, _)
pickLoop(families, i, id, res) ==
    IF i > Len(families) THEN res
    ELSE LET fam == families[i]
             chosen == chosenFor(fam, id)
         IN IF ~fam.Mandatory THEN pickLoop(families, i + 1, id, res)
            ELSE IF chosen # ""
            THEN pickLoop(families, i + 1, id, MapPut(res, famNameOf(fam), chosen))
            ELSE pickLoop(families, i + 1, id, res)

pickMandatoryAddonsForFQNMutant(p, id) ==
    pickLoop([i \in 1..Len(p.AddonFamilies) |-> [p.AddonFamilies[i] EXCEPT !.Mandatory = TRUE]],
             1, id, EmptyMap)

pickMandatoryAddonsForFQN(p, id) == pickLoop(p.AddonFamilies, 1, id, EmptyMap)

(***************************************************************************)
(* getCatalogCurrency, indexCatalog, computeTotalMonthly                   *)
(***************************************************************************)
getCatalogCurrencyMutant(c) == c.Locale.CurrencyCode

getCatalogCurrency(c) ==
    IF c.Locale.CurrencyCode # "" THEN c.Locale.CurrencyCode ELSE "UNKNOWN"

\* one loop of indexCatalog over pool from index i on, idx being the map so far
RECURSIVE indexLoop(_, _, _)
indexLoop(pool, i, idx) ==
    IF i > Len(pool) THEN idx
    ELSE indexLoop(pool, i + 1, MapPut(idx, pool[i].PlanCode, pool[i]))

plansIndexMutant(c) == indexLoop(c.Plans \o c.Addons, 1, EmptyMap)

plansIndexKeepFirstMutant(c) ==
    indexLoop([i \in 1..Len(c.Plans) |-> c.Plans[Len(c.Plans) + 1 - i]], 1, EmptyMap)

\* indexCatalog: the pair of maps it returns
plansIndex(c) == indexLoop(c.Plans, 1, EmptyMap)

addonsIndex(c) == indexLoop(c.Addons, 1, EmptyMap)

addonContributionMutant(addonsIdx, addonCode, currency) == ZeroPrice

\* what one iteration of the loop over mandatoryAddons adds to total
addonContribution(addonsIdx, addonCode, currency) ==
    IF addonCode \notin DOMAIN addonsIdx THEN ZeroPrice
    ELSE LET r == priceForPlan(addonsIdx[addonCode], currency)
         IN IF r.err THEN ZeroPrice ELSE r.price

\* the loop over mandatoryAddons (a Go map: some order of the keys left)
RECURSIVE sumAddons(_, _, _, _, _)
sumAddons(keys, mandatoryAddons, addonsIdx, currency, total) ==
    IF keys = {} THEN total
    ELSE LET k == CHOOSE x \in keys : TRUE
         IN sumAddons(keys \ {k}, mandatoryAddons, addonsIdx, currency,
                      AddPrice(total, addonContribution(addonsIdx, mandatoryAddons[k], currency)))

noTotal == [total |-> ZeroPrice, currency |-> "", invoiceName |-> "",
            addons |-> EmptyMap, err |-> TRUE]

computeTotalMonthlyMutant(plansIdx, addonsIdx, planCode, id, currency) ==
    IF planCode \notin DOMAIN plansIdx THEN noTotal
    ELSE LET p == plansIdx[planCode]
             base == priceForPlan(p, currency)
             mandatoryAddons == pickMandatoryAddonsForFQN(p, id)
         IN [total |-> sumAddons(DOMAIN mandatoryAddons, mandatoryAddons,
                                 addonsIdx, currency, base.price),
             currency |-> currency,
             invoiceName |-> p.PlanCode,
             addons |-> mandatoryAddons,
             err |-> FALSE]

\* the same without the last fallback of the display name
computeTotalMonthlyNoCodeMutant(plansIdx, addonsIdx, planCode, id, currency) ==
    IF planCode \notin DOMAIN plansIdx THEN noTotal
    ELSE LET p == plansIdx[planCode]
             base == priceForPlan(p, currency)
             invoiceName == IF p.InvoiceName # "" THEN p.InvoiceName ELSE p.Description
             mandatoryAddons == pickMandatoryAddonsForFQN(p, id)
         IN IF base.err THEN noTotal
            ELSE [total |-> sumAddons(DOMAIN mandatoryAddons, mandatoryAddons,
                                      addonsIdx, currency, base.price),
                  currency |-> base.currency,
                  invoiceName |-> invoiceName,
                  addons |-> mandatoryAddons,
                  err |-> FALSE]

\* the same returning only the selections that were priced
computeTotalMonthlyPricedOnlyMutant(plansIdx, addonsIdx, planCode, id, currency) ==
    IF planCode \notin DOMAIN plansIdx THEN noTotal
    ELSE LET p == plansIdx[planCode]
             base == priceForPlan(p, currency)
             invoiceName == IF p.InvoiceName # "" THEN p.InvoiceName
                            ELSE IF p.Description # "" THEN p.Description
                            ELSE p.PlanCode
             mandatoryAddons == pickMandatoryAddonsForFQN(p, id)
             priced == {k \in DOMAIN mandatoryAddons :
                           /\ mandatoryAddons[k] \in DOMAIN addonsIdx
                           /\ ~priceForPlan(addonsIdx[mandatoryAddons[k]], currency).err}
         IN IF base.err THEN noTotal
            ELSE [total |-> sumAddons(DOMAIN mandatoryAddons, mandatoryAddons,
                                      addonsIdx, currency, base.price),
                  currency |-> base.currency,
                  invoiceName |-> invoiceName,
                  addons |-> [k \in priced |-> mandatoryAddons[k]],
                  err |-> FALSE]

computeTotalMonthly(plansIdx, addonsIdx, planCode, id, currency) ==
    IF planCode \notin DOMAIN plansIdx THEN noTotal
    ELSE LET p == plansIdx[planCode]
             base == priceForPlan(p, currency)
             invoiceName == IF p.InvoiceName # "" THEN p.InvoiceName
                            ELSE IF p.Description # "" THEN p.Description
                            ELSE p.PlanCode
             mandatoryAddons == pickMandatoryAddonsForFQN(p, id)
         IN IF base.err THEN noTotal
            ELSE [total |-> sumAddons(DOMAIN mandatoryAddons, mandatoryAddons,
                                      addonsIdx, currency, base.price),
                  currency |-> base.currency,
                  invoiceName |-> invoiceName,
                  addons |-> mandatoryAddons,
                  err |-> FALSE]

(***************************************************************************)
(* float64 arithmetic on prices, bit by bit.  A positive float64 is        *)
(* [exp, bits]: bits is the 53-bit significand, most significant bit first *)
(* and equal to 1, and the value is 0.bits * 2^exp; zero is F64Zero.       *)
(* Prices are far from the subnormal and overflow ranges, so what is       *)
(* modelled is the exact result rounded to nearest, ties to even.          *)
(***************************************************************************)
F64Bits == 53

F64Zero == [exp |-> 0, bits |-> <<>>]

Zeros(n) == [i \in 1..n |-> 0]

\* the binary digits of a natural number, most significant first (<<>> for 0)
RECURSIVE BinOf(_)
BinOf(n) == IF n = 0 THEN <<>> ELSE Append(BinOf(n \div 2), n % 2)

\* the first 4 * k binary digits of r / d after the point (0 <= r < d), four
\* at a time, and the remainder left after them
RECURSIVE FracBits(_, _, _, _)
FracBits(r, d, k, acc) ==
    IF k = 0 THEN [bits |-> acc, rem |-> r]
    ELSE LET q == BinOf((16 * r) \div d)
         IN FracBits((16 * r) % d, d, k - 1, acc \o Zeros(4 - Len(q)) \o q)

\* the number of zeros before the first 1 of b, counted from position i
RECURSIVE LeadingZeros(_, _)
LeadingZeros(b, i) ==
    IF i > Len(b) \/ b[i] = 1 THEN i - 1 ELSE LeadingZeros(b, i + 1)

\* b + 1 on a bit string; one bit longer when every bit of b is 1
Incr(b) ==
    LET zs == {i \in 1..Len(b) : b[i] = 0}
    IN IF zs = {} THEN <<1>> \o Zeros(Len(b))
       ELSE LET j == CHOOSE i \in zs : \A k \in zs : k <= i
            IN [i \in 1..Len(b) |-> IF i < j THEN b[i] ELSE IF i = j THEN 1 ELSE 0]

\* the float64 nearest to 0.b * 2^exp (plus a non-zero tail below b when
\* sticky), ties to even
RoundNearestEven(b, sticky, exp) ==
    LET z == LeadingZeros(b, 1)
    IN IF z = Len(b) THEN F64Zero
       ELSE LET n == SubSeq(b, z + 1, Len(b)) \o Zeros(F64Bits + 1)
                head == SubSeq(n, 1, F64Bits)
                half == n[F64Bits + 1] = 1
                tail == sticky \/ \E i \in (F64Bits + 2)..Len(n) : n[i] = 1
                up == half /\ (tail \/ head[F64Bits] = 1)
                inc == Incr(head)
            IN IF ~up THEN [exp |-> exp - z, bits |-> head]
               ELSE IF Len(inc) > F64Bits
               THEN [exp |-> exp - z + 1, bits |-> SubSeq(inc, 1, F64Bits)]
               ELSE [exp |-> exp - z, bits |-> inc]

\* float64(pr.Price) / 100000000.0 for the exact quotient p = [whole, frac]:
\* both operands are exact float64 values and the division is correctly rounded
F64(p) ==
    LET int == BinOf(p.whole)
        fr == FracBits(p.frac, MicroPerUnit, 21, <<>>)
    IN RoundNearestEven(int \o fr.bits, fr.rem # 0, Len(int))

\* a + b on bit strings of equal length, one bit longer: the carry into
\* position i comes from the nearest lower position where both bits are 1,
\* through positions where exactly one is
AddBits(a, b) ==
    LET n == Len(a)
        carry(i) == \E j \in (i + 1)..n :
                       /\ a[j] + b[j] = 2
                       /\ \A k \in (i + 1)..(j - 1) : a[k] + b[k] = 1
        c == [i \in 0..n |-> IF carry(i) THEN 1 ELSE 0]
    IN <<c[0]>> \o [i \in 1..n |-> (a[i] + b[i] + c[i]) % 2]

\* x + y on float64
F64Add(x, y) ==
    IF x.bits = <<>> THEN y
    ELSE IF y.bits = <<>> THEN x
    ELSE LET hi == IF x.exp >= y.exp THEN x ELSE y
             lo == IF x.exp >= y.exp THEN y ELSE x
             d == hi.exp - lo.exp
             s == AddBits(hi.bits \o Zeros(d), Zeros(d) \o lo.bits)
         IN RoundNearestEven(s, FALSE, hi.exp + 1)

\* the orders in which a range loop may visit the keys of the Go map m
KeyOrders(m) ==
    {o \in [1..Cardinality(DOMAIN m) -> DOMAIN m] :
        \A i, j \in DOMAIN o : i # j => o[i] # o[j]}

\* the loop over mandatoryAddons of computeTotalMonthly on float64, visiting
\* the keys in the given order
RECURSIVE sumInOrder(_, _, _, _, _, _)
sumInOrder(order, i, mandatoryAddons, addonsIdx, currency, total) ==
    IF i > Len(order) THEN total
    ELSE sumInOrder(order, i + 1, mandatoryAddons, addonsIdx, currency,
                    F64Add(total, F64(addonContribution(addonsIdx,
                                                        mandatoryAddons[order[i]], currency))))

\* the float64 total of computeTotalMonthly when the map is visited in the
\* given order
totalInOrder(plansIdx, addonsIdx, planCode, id, currency, order) ==
    LET r == computeTotalMonthly(plansIdx, addonsIdx, planCode, id, currency)
    IN IF r.err THEN [total |-> F64Zero, err |-> TRUE]
       ELSE [total |-> sumInOrder(order, 1, r.addons, addonsIdx, currency,
                                  F64(priceForPlan(plansIdx[planCode], currency).price)),
             err |-> FALSE]

(***************************************************************************)
(* GetTopOffers: the loop over availabilities, the sort, the truncation    *)
(***************************************************************************)
availableInMutant(item, dc) ==
    \E i \in 1..Len(item.Datacenters) : item.Datacenters[i].Availability # "unavailable"

\* the test taking an empty status for no stock
availableInNonEmptyMutant(item, dc) ==
    \E i \in 1..Len(item.Datacenters) :
        /\ item.Datacenters[i].Datacenter = dc
        /\ item.Datacenters[i].Availability \notin {"unavailable", ""}

\* the inner loop over item.Datacenters
availableIn(item, dc) ==
    \E i \in 1..Len(item.Datacenters) :
        /\ item.Datacenters[i].Datacenter = dc
        /\ item.Datacenters[i].Availability # "unavailable"

\* the iteration without the break of the inner loop: one offer per entry
appendOfferPerEntryMutant(acc, item, plansIdx, addonsIdx, currency, dc) ==
    IF item.FQN = "" \/ item.PlanCode = "" THEN acc
    ELSE IF item.PlanCode \notin DOMAIN plansIdx THEN acc
    ELSE LET t == computeTotalMonthly(plansIdx, addonsIdx, item.PlanCode, item.FQN, currency)
             n == Cardinality({i \in 1..Len(item.Datacenters) :
                                  /\ item.Datacenters[i].Datacenter = dc
                                  /\ item.Datacenters[i].Availability # "unavailable"})
         IN IF t.err THEN acc
            ELSE acc \o [k \in 1..n |-> [FQN |-> item.FQN,
                                         PlanCode |-> item.PlanCode,
                                         Price |-> t.total,
                                         Currency |-> t.currency,
                                         InvoiceName |-> t.invoiceName,
                                         Addons |-> t.addons]]

\* one iteration of the loop: the offers after item was handled
appendOffer(acc, item, plansIdx, addonsIdx, currency, dc) ==
    IF item.FQN = "" \/ item.PlanCode = "" THEN acc
    ELSE IF item.PlanCode \notin DOMAIN plansIdx THEN acc
    ELSE IF ~availableIn(item, dc) THEN acc
    ELSE LET t == computeTotalMonthly(plansIdx, addonsIdx, item.PlanCode, item.FQN, currency)
         IN IF t.err THEN acc
            ELSE Append(acc, [FQN |-> item.FQN,
                              PlanCode |-> item.PlanCode,
                              Price |-> t.total,
                              Currency |-> t.currency,
                              InvoiceName |-> t.invoiceName,
                              Addons |-> t.addons])

\* the loop over availabilities from index i on
RECURSIVE buildOffers(_, _, _, _, _, _, _)
buildOffers(avail, i, acc, plansIdx, addonsIdx, currency, dc) ==
    IF i > Len(avail) THEN acc
    ELSE buildOffers(avail, i + 1,
                     appendOffer(acc, avail[i], plansIdx, addonsIdx, currency, dc),
                     plansIdx, addonsIdx, currency, dc)

Perms(n) == {f \in [1..n -> 1..n] : \A i, j \in 1..n : i # j => f[i] # f[j]}

\* sort.Slice(offers, less) is not a stable sort: it leaves offers in some
\* order in which no element is less than an earlier one
sortSliceOutcomes(s) ==
    {[i \in 1..Len(s) |-> s[f[i]]] :
        f \in {g \in Perms(Len(s)) :
                 \A i, j \in 1..Len(s) : i < j => ~Less(s[g[j]], s[g[i]])}}

truncateNoLimitMutant(sorted, n) == [kind |-> "ok", offers |-> sorted, err |-> ""]

truncateEmptyErrorMutant(sorted, n) ==
    IF Len(sorted) = 0 THEN [kind |-> "error", offers |-> <<>>, err |-> "no offers"]
    ELSE [kind |-> "ok", offers |-> SubSeq(sorted, 1, IF Len(sorted) < n THEN Len(sorted) ELSE n),
          err |-> ""]

\* step 6 with a negative limit taken for zero
truncateClampMutant(sorted, n) ==
    IF Len(sorted) = 0 THEN [kind |-> "ok", offers |-> <<>>, err |-> ""]
    ELSE LET limit == IF Len(sorted) < n THEN Len(sorted) ELSE n
         IN IF limit < 0
            THEN [kind |-> "ok", offers |-> <<>>, err |-> ""]
            ELSE [kind |-> "ok", offers |-> SubSeq(sorted, 1, limit), err |-> ""]

\* step 6: what GetTopOffers returns from the sorted offers
truncate(sorted, n) ==
    IF Len(sorted) = 0 THEN [kind |-> "ok", offers |-> <<>>, err |-> ""]
    ELSE LET limit == IF Len(sorted) < n THEN Len(sorted) ELSE n
         IN IF limit < 0
            THEN [kind |-> "panic", offers |-> <<>>, err |-> "slice bounds out of range"]
            ELSE [kind |-> "ok", offers |-> SubSeq(sorted, 1, limit), err |-> ""]

(***************************************************************************)
(* The feeds the fetches may return.                                       *)
(***************************************************************************)
Tier(interval, unit, duration, price) ==
    [Interval |-> interval, IntervalUnit |-> unit, Duration |-> duration, Price |-> price]

Family(name, mandatory, addons, default) ==
    [Name |-> name, Mandatory |-> mandatory, Addons |-> addons, Default |-> default]

MkPlan(code, invoiceName, description, families, pricings) ==
    [PlanCode |-> code, InvoiceName |-> invoiceName, Description |-> description,
     AddonFamilies |-> families, Pricings |-> pricings]

Record(id, code, dcs) == [FQN |-> id, PlanCode |-> code, Datacenters |-> dcs]

DC(code, status) == [Datacenter |-> code, Availability |-> status]

MonthlyTier == Tier(1, "month", "", 1599000000)
CheapMonthlyTier == Tier(1, "month", "", 500000000)
LegacyTier == Tier(0, "", "P1M", 999000000)
YearlyTier == Tier(1, "year", "P1Y", 2000000000)
TwelveMonthTier == Tier(12, "month", "P12M", 1200000000)

TierPool == {MonthlyTier, CheapMonthlyTier, LegacyTier, YearlyTier, TwelveMonthTier}

FamMemory == Family("memory", TRUE, <<"ram-16g-24sk10", "ram-32g-24sk10">>, "ram-16g-24sk10")
FamStorage == Family("storage", FALSE, <<"softraid-24sk10">>, "softraid-24sk10")
FamBandwidth == Family("", TRUE, <<"bw-1g-24sk20-v1">>, "bw-none")
FamVrack == Family("vrack", TRUE, <<>>, "")

Plan24sk10 == MkPlan("24sk10", "KS-1", "", <<FamMemory, FamStorage>>, <<YearlyTier, MonthlyTier>>)
Plan24sk10Old == MkPlan("24sk10", "", "", <<>>, <<YearlyTier>>)
Plan24sk20 == MkPlan("24sk20", "", "KS-2", <<FamBandwidth, FamVrack>>, <<LegacyTier>>)
Plan24sys01 == MkPlan("24sys01", "SYS-1", "", <<>>, <<YearlyTier, TwelveMonthTier>>)

AddonRam16 == MkPlan("ram-16g-24sk10", "", "", <<>>, <<Tier(1, "month", "", 100000000)>>)
AddonRam32 == MkPlan("ram-32g-24sk10", "", "", <<>>, <<CheapMonthlyTier>>)
AddonBw1g == MkPlan("bw-1g-24sk20-v1", "", "", <<>>, <<YearlyTier>>)
AddonOnly == MkPlan("24sk99", "", "", <<>>, <<CheapMonthlyTier>>)
\* a base plan with neither name, offered at no monthly charge
Plan24sk99 == MkPlan("24sk99", "", "", <<>>, <<Tier(1, "month", "", 0)>>)

CatalogFull ==
    [Locale |-> [CurrencyCode |-> "GBP"],
     Plans |-> <<Plan24sk10, Plan24sk20, Plan24sys01>>,
     Addons |-> <<AddonRam16, AddonRam32, AddonBw1g, AddonOnly>>]

CatalogPartial ==
    [Locale |-> [CurrencyCode |-> "EUR"],
     Plans |-> <<Plan24sk10Old, Plan24sk10>>,
     Addons |-> <<AddonRam32, AddonOnly>>]

CatalogEmpty == [Locale |-> [CurrencyCode |-> ""], Plans |-> <<>>, Addons |-> <<>>]

\* a catalog whose locale carries no currency code
CatalogNoCurrency ==
    [Locale |-> [CurrencyCode |-> ""], Plans |-> <<Plan24sk20, Plan24sk99, Plan24sk10>>, Addons |-> <<>>]

CatalogPool == {CatalogFull, CatalogPartial, CatalogEmpty, CatalogNoCurrency}

AvailPool ==
    { Record("24sk10.ram-16g", "24sk10", <<DC("lon", "available")>>),
      Record("24sk10.ram-16g.hdd", "24sk10", <<DC("rbx", "unavailable"), DC("lon", "1H-low")>>),
      Record("24sk10.ram-32g", "24sk10",
             <<DC("rbx", "unavailable"), DC("rbx", ""), DC("lon", "available")>>),
      Record("24sk20.bw-1g", "24sk20", <<DC("lon", "unavailable"), DC("rbx", "available")>>),
      Record("24sk20.hdd", "24sk20",
             <<DC("rbx", "Unavailable"), DC("lon", "available"), DC("lon", "available")>>),
      Record("24sys01.ram-16g", "24sys01", <<DC("lon", "available"), DC("rbx", "available")>>),
      Record("24sk99.hdd", "24sk99", <<DC("lon", "available")>>),
      Record("", "24sk10", <<DC("lon", "available")>>) }

DatacenterPool == {"lon", "rbx"}

\* the sequences over S of length at most n
SeqUpTo(S, n) == UNION {[1..k -> S] : k \in 0..n}

NoCatalog == [Locale |-> [CurrencyCode |-> ""], Plans |-> <<>>, Addons |-> <<>>]

NoResult == [kind |-> "none", offers |-> <<>>, err |-> ""]

NoPlan == MkPlan("", "", "", <<>>, <<>>)

NoRet == [kind |-> "none"]

(***************************************************************************)
(* One invocation of GetTopOffers.                                         *)
(***************************************************************************)
helperIdle == plan = NoPlan /\ fqn = "" /\ catalogCurrency = "" /\ ret = NoRet

NoRequest == [Method |-> "", Body |-> [json |-> "none"]]

httpIdle == request = NoRequest /\ response = 0 /\ invoked = <<>>

botIdle == allowedUsers = <<>> /\ userID = 0 /\ sent = <<>> /\ httpIdle

\* what loadAvailabilities and loadEcoCatalog may end with
FetchOutcomes == {"ok", "fetch failed", "decode failed"}

\* the error of loadAvailabilities / loadEcoCatalog as GetTopOffers wraps it
loadError(feed, outcome) ==
    "failed to load " \o feed \o ": " \o
        (IF outcome = "fetch failed" THEN "request failed" ELSE "failed to parse " \o feed)

Init ==
    /\ pc = "loadAvailabilities"
    /\ datacenter \in DatacenterPool
    /\ top \in -1..MaxTop
    /\ availabilities = <<>>
    /\ catalog = NoCatalog
    /\ offers = <<>>
    /\ result = NoResult
    /\ fetches = <<>>
    /\ helperIdle
    /\ botIdle

\* step 1, the fetch and decoding succeed
LoadAvailabilitiesOk ==
    /\ pc = "loadAvailabilities"
    /\ \E feed \in SeqUpTo(AvailPool, MaxAvail) : availabilities' = feed
    /\ fetches' = Append(fetches, [feed |-> "availabilities", outcome |-> "ok"])
    /\ pc' = "loadEcoCatalog"
    /\ UNCHANGED <<datacenter, top, catalog, offers, result, plan, fqn, catalogCurrency, ret,
                   botVars>>

LoadAvailabilitiesFailMutant ==
    /\ pc = "loadAvailabilities"
    /\ \E outcome \in FetchOutcomes \ {"ok"} :
          /\ fetches' = Append(fetches, [feed |-> "availabilities", outcome |-> outcome])
          /\ result' = [kind |-> "error", offers |-> <<>>,
                        err |-> loadError("availabilities", outcome)]
    /\ pc' = "loadEcoCatalog"
    /\ UNCHANGED <<datacenter, top, availabilities, catalog, offers, plan, fqn, catalogCurrency, ret,
                   botVars>>

\* step 1, httpGet or json.Unmarshal fails
LoadAvailabilitiesFail ==
    /\ pc = "loadAvailabilities"
    /\ \E outcome \in FetchOutcomes \ {"ok"} :
          /\ fetches' = Append(fetches, [feed |-> "availabilities", outcome |-> outcome])
          /\ result' = [kind |-> "error", offers |-> <<>>,
                        err |-> loadError("availabilities", outcome)]
    /\ pc' = "done"
    /\ UNCHANGED <<datacenter, top, availabilities, catalog, offers, plan, fqn, catalogCurrency, ret,
                   botVars>>

\* step 2, the fetch and decoding succeed
LoadEcoCatalogOk ==
    /\ pc = "loadEcoCatalog"
    /\ \E c \in CatalogPool : catalog' = c
    /\ fetches' = Append(fetches, [feed |-> "catalog", outcome |-> "ok"])
    /\ pc' = "buildOffers"
    /\ UNCHANGED <<datacenter, top, availabilities, offers, result, plan, fqn, catalogCurrency, ret,
                   botVars>>

LoadEcoCatalogFailMutant ==
    /\ pc = "loadEcoCatalog"
    /\ \E outcome \in FetchOutcomes \ {"ok"} :
          /\ fetches' = Append(fetches, [feed |-> "catalog", outcome |-> outcome])
          /\ result' = [kind |-> "error", offers |-> <<>>,
                        err |-> loadError("availabilities", outcome)]
    /\ pc' = "done"
    /\ UNCHANGED <<datacenter, top, availabilities, catalog, offers, plan, fqn, catalogCurrency, ret,
                   botVars>>

\* step 2, httpGet or json.Unmarshal fails
LoadEcoCatalogFail ==
    /\ pc = "loadEcoCatalog"
    /\ \E outcome \in FetchOutcomes \ {"ok"} :
          /\ fetches' = Append(fetches, [feed |-> "catalog", outcome |-> outcome])
          /\ result' = [kind |-> "error", offers |-> <<>>, err |-> loadError("catalog", outcome)]
    /\ pc' = "done"
    /\ UNCHANGED <<datacenter, top, availabilities, catalog, offers, plan, fqn, catalogCurrency, ret,
                   botVars>>

\* steps 3 and 4: index the catalog and run the loop over availabilities
BuildOffers ==
    /\ pc = "buildOffers"
    /\ offers' = buildOffers(availabilities, 1, <<>>, plansIndex(catalog),
                             addonsIndex(catalog), getCatalogCurrency(catalog), datacenter)
    /\ pc' = "sort"
    /\ UNCHANGED <<datacenter, top, availabilities, catalog, result, plan, fqn, catalogCurrency, ret,
                   fetches, botVars>>

\* step 5
SortOffers ==
    /\ pc = "sort"
    /\ \E sorted \in sortSliceOutcomes(offers) : offers' = sorted
    /\ pc' = "return"
    /\ UNCHANGED <<datacenter, top, availabilities, catalog, result, plan, fqn, catalogCurrency, ret,
                   fetches, botVars>>

\* step 6
ReturnTop ==
    /\ pc = "return"
    /\ result' = truncate(offers, top)
    /\ pc' = "done"
    /\ UNCHANGED <<datacenter, top, availabilities, catalog, offers, plan, fqn, catalogCurrency, ret,
                   fetches, botVars>>

Next ==
    \/ LoadAvailabilitiesOk
    \/ LoadAvailabilitiesFail
    \/ LoadEcoCatalogOk
    \/ LoadEcoCatalogFail
    \/ BuildOffers
    \/ SortOffers
    \/ ReturnTop

Spec == Init /\ [][Next]_vars

(***************************************************************************)
(* priceForPlan called on its own, on every list of at most MaxTiers tiers *)
(***************************************************************************)
engineIdle ==
    /\ datacenter = "" /\ top = 0 /\ availabilities = <<>> /\ catalog = NoCatalog
    /\ offers = <<>> /\ result = NoResult /\ fetches = <<>>

CurrencyPool == {"GBP", "EUR", ""}

InitPrice ==
    /\ pc = "call"
    /\ \E pricings \in SeqUpTo(TierPool, MaxTiers) :
          plan = MkPlan("test", "", "", <<>>, pricings)
    /\ catalogCurrency \in CurrencyPool
    /\ fqn = ""
    /\ ret = NoRet
    /\ engineIdle
    /\ botIdle

CallPriceForPlan ==
    /\ pc = "call"
    /\ ret' = priceForPlan(plan, catalogCurrency)
    /\ pc' = "returned"
    /\ UNCHANGED <<datacenter, top, availabilities, catalog, offers, result,
                   plan, fqn, catalogCurrency, fetches, botVars>>

NextPrice == CallPriceForPlan

SpecPrice == InitPrice /\ [][NextPrice]_vars

(***************************************************************************)
(* pickMandatoryAddonsForFQN called on its own, on every plan of at most   *)
(* MaxFamilies addon families                                              *)
(***************************************************************************)
CandidateLists ==
    { <<>>,
      <<"ram-16g-24sk10", "ram-32g-24sk10">>,
      <<"", "ram-32g-24sk10-v2", "ram-32g">>,
      <<"-24sk10", "hdd-24SK10", "ram-64g-1x">> }

FamilyPool ==
    { Family(nm[1], nm[2], addons, default) :
        nm \in {<<"memory", TRUE>>, <<"", TRUE>>, <<"storage", FALSE>>},
        addons \in CandidateLists,
        default \in {"", "ram-default"} }

FqnPool == {"", "24sk10.ram-16g", "24sk10.ram-32g.hdd", "ks.ram-64g-1x", "ram-32g-24sk10.b"}

InitPick ==
    /\ pc = "call"
    /\ \E families \in SeqUpTo(FamilyPool, MaxFamilies) :
          plan = MkPlan("test", "", "", families, <<>>)
    /\ fqn \in FqnPool
    /\ catalogCurrency = ""
    /\ ret = NoRet
    /\ engineIdle
    /\ botIdle

CallPickMandatoryAddonsForFQN ==
    /\ pc = "call"
    /\ ret' = [kind |-> "map", addons |-> pickMandatoryAddonsForFQN(plan, fqn)]
    /\ pc' = "returned"
    /\ UNCHANGED <<datacenter, top, availabilities, catalog, offers, result,
                   plan, fqn, catalogCurrency, fetches, botVars>>

NextPick == CallPickMandatoryAddonsForFQN

SpecPick == InitPick /\ [][NextPick]_vars

(***************************************************************************)
(* computeTotalMonthly called repeatedly on the same arguments, its sum    *)
(* taken on float64 and its range loop over the Go map mandatoryAddons     *)
(* visiting the keys in an order chosen anew by every call                 *)
(***************************************************************************)
MaxRuns == 2        \* most calls of computeTotalMonthly on the same arguments

FamDisk == Family("storage", TRUE, <<"softraid-24sk10">>, "softraid-24sk10")

TotalCatalog(base, ram, disk) ==
    [Locale |-> [CurrencyCode |-> "GBP"],
     Plans |-> <<MkPlan("24sk10", "KS-1", "", <<FamMemory, FamDisk>>,
                        <<Tier(1, "month", "", base)>>)>>,
     Addons |-> <<MkPlan("ram-16g-24sk10", "", "", <<>>, <<Tier(1, "month", "", ram)>>),
                  MkPlan("softraid-24sk10", "", "", <<>>, <<Tier(1, "month", "", disk)>>)>>]

TotalCatalogPool ==
    { TotalCatalog(base, ram, disk) :
        base \in {1599000000, 999000000, 500000000},
        ram \in {100000000, 50000000},
        disk \in {10000000, 20000000, 0} }

TotalRecordPool ==
    { Record("24sk10.ram-16g", "24sk10", <<DC("lon", "available")>>),
      Record("24sk10.ram-32g", "24sk10", <<DC("lon", "available")>>),
      Record("24sk99.hdd", "24sk99", <<DC("lon", "available")>>) }

InitTotal ==
    /\ pc = "call"
    /\ \E item \in TotalRecordPool : availabilities = <<item>>
    /\ catalog \in TotalCatalogPool
    /\ datacenter = "" /\ top = 0 /\ offers = <<>> /\ result = NoResult /\ fetches = <<>>
    /\ ret = [kind |-> "totals", totals |-> <<>>]
    /\ plan = NoPlan /\ fqn = "" /\ catalogCurrency = ""
    /\ botIdle

CallComputeTotalMonthly ==
    /\ pc = "call"
    /\ Len(ret.totals) < MaxRuns
    /\ LET item == availabilities[1]
           plansIdx == plansIndex(catalog)
           addonsIdx == addonsIndex(catalog)
           currency == getCatalogCurrency(catalog)
           r == computeTotalMonthly(plansIdx, addonsIdx, item.PlanCode, item.FQN, currency)
       IN \E order \in KeyOrders(r.addons) :
             ret' = [ret EXCEPT !.totals =
                        Append(@, totalInOrder(plansIdx, addonsIdx, item.PlanCode, item.FQN,
                                               currency, order))]
    /\ UNCHANGED <<pc, datacenter, top, availabilities, catalog, offers, result,
                   plan, fqn, catalogCurrency, fetches, botVars>>

NextTotal == CallComputeTotalMonthly

SpecTotal == InitTotal /\ [][NextTotal]_vars

(***************************************************************************)
(* indexCatalog called on its own, on every catalog of at most MaxPool     *)
(* base plans and MaxPool addons                                           *)
(***************************************************************************)
MaxPool == 2        \* longest list of base plans, and of addons, of a catalog indexed on its own

IndexPlanPool == {Plan24sk10, Plan24sk10Old, Plan24sk20, AddonOnly}

InitIndex ==
    /\ pc = "call"
    /\ \E plans \in SeqUpTo(IndexPlanPool, MaxPool) :
          \E addons \in SeqUpTo(IndexPlanPool, MaxPool) :
              catalog = [Locale |-> [CurrencyCode |-> "GBP"], Plans |-> plans, Addons |-> addons]
    /\ datacenter = "" /\ top = 0 /\ availabilities = <<>>
    /\ offers = <<>> /\ result = NoResult /\ fetches = <<>>
    /\ helperIdle
    /\ botIdle

CallIndexCatalog ==
    /\ pc = "call"
    /\ ret' = [kind |-> "indexes", plans |-> plansIndex(catalog), addons |-> addonsIndex(catalog)]
    /\ pc' = "returned"
    /\ UNCHANGED <<datacenter, top, availabilities, catalog, offers, result,
                   plan, fqn, catalogCurrency, fetches, botVars>>

NextIndex == CallIndexCatalog

SpecIndex == InitIndex /\ [][NextIndex]_vars

(***************************************************************************)
(* Config.IsUserAllowed called on its own, on every list of at most        *)
(* MaxUsers allowed users                                                  *)
(***************************************************************************)
MaxUsers == 2       \* longest list of allowed users

\* the loop over c.AllowedUsers from index i on
RECURSIVE searchAllowed(_, _, _)
searchAllowed(users, i, id) ==
    IF i > Len(users) THEN FALSE
    ELSE IF users[i] = id THEN TRUE
    ELSE searchAllowed(users, i + 1, id)

IsUserAllowedMutant(users, id) ==
    IF Len(users) = 0 THEN TRUE ELSE searchAllowed(users, 1, id)

\* c.IsUserAllowed(userID), users being c.AllowedUsers
IsUserAllowed(users, id) ==
    IF Len(users) = 0 THEN FALSE ELSE searchAllowed(users, 1, id)

UserPool == {12345, 67890, 99999, 0}

InitAllowed ==
    /\ pc = "call"
    /\ allowedUsers \in SeqUpTo(UserPool, MaxUsers)
    /\ userID \in UserPool
    /\ sent = <<>>
    /\ httpIdle
    /\ engineIdle
    /\ helperIdle

CallIsUserAllowed ==
    /\ pc = "call"
    /\ ret' = [kind |-> "bool", allowed |-> IsUserAllowed(allowedUsers, userID)]
    /\ pc' = "returned"
    /\ UNCHANGED <<datacenter, top, availabilities, catalog, offers, result,
                   plan, fqn, catalogCurrency, fetches, botVars>>

NextAllowed == CallIsUserAllowed

SpecAllowed == InitAllowed /\ [][NextAllowed]_vars

(***************************************************************************)
(* escapeMarkdownV2 and FormatOfferForTelegram (package ovh),              *)
(* formatOVHResults and HandleOVHCheck (package handlers).  The emoji of   *)
(* the message texts are written as their short names between colons.      *)
(***************************************************************************)
\* without the backquote, which a TLA+ string cannot hold and no text of the
\* feeds contains
specialChars ==
    <<"_", "*", "[", "]", "(", ")", "~", ">", "#", "+", "-", "=", "|", "{", "}", ".", "!">>

\* strings.ReplaceAll(s, old, new) for a one-byte old, from position i on
RECURSIVE ReplaceAll(_, _, _, _)
ReplaceAll(s, i, old, new) ==
    IF i > Len(s) THEN ""
    ELSE (IF SubSeq(s, i, i) = old THEN new ELSE SubSeq(s, i, i)) \o ReplaceAll(s, i + 1, old, new)

\* the loop over specialChars from index k on
RECURSIVE escapeFrom(_, _)
escapeFrom(res, k) ==
    IF k > Len(specialChars) THEN res
    ELSE escapeFrom(ReplaceAll(res, 1, specialChars[k], "\\" \o specialChars[k]), k + 1)

escapeMarkdownV2(text) == escapeFrom(text, 1)

\* fmt.Sprintf("%.2f", price) of a price that is not negative
FormatPrice(p) ==
    LET cents == p.whole * 100 + (p.frac + 500000) \div 1000000
        c == cents % 100
    IN ToString(cents \div 100) \o "." \o (IF c < 10 THEN "0" ELSE "") \o ToString(c)

FormatOfferForTelegram(offer, index) ==
    ToString(index) \o "\\. "
        \o "*" \o FormatPrice(offer.Price) \o " " \o escapeMarkdownV2(offer.Currency) \o "/mo* \\- "
        \o escapeMarkdownV2(offer.InvoiceName)
        \o "\n"
        \o "   _FQN: "
        \o escapeMarkdownV2(offer.FQN)
        \o "_"

RECURSIVE formatLoopMutant(_, _, _)
formatLoopMutant(list, i, message) ==
    IF i > Len(list) THEN message
    ELSE formatLoopMutant(list, i + 1,
                          message \o FormatOfferForTelegram(list[i], i - 1) \o "\n")

\* the loop of formatOVHResults over offers from index i on
RECURSIVE formatLoop(_, _, _)
formatLoop(list, i, message) ==
    IF i > Len(list) THEN message
    ELSE formatLoop(list, i + 1, message \o FormatOfferForTelegram(list[i], i) \o "\n")

formatOVHResults(list) ==
    IF Len(list) = 0 THEN "No available servers found in London datacenter\\."
    ELSE formatLoop(list, 1, ":desktop_computer: *Available OVH Servers*\n"
                                 \o "_Top 5 cheapest in London \\(GB\\)_\n\n")
             \o "\n_Use /start to return to main menu_"

NotAuthorizedText == ":no_entry: This feature is only available to authorized users\\."

StatusText ==
    ":desktop_computer: Checking OVH server availability\\.\\.\\.\\nThis may take a few seconds\\."

FetchFailedText == ":x: Failed to fetch server availability\\. Please try again later\\."

OVHTop == 5

OVHUserPool == {12345, 99999}

OVHAvailPool ==
    { Record("24sk10.ram-16g", "24sk10", <<DC("lon", "available")>>),
      Record("24sk10.ram-32g", "24sk10", <<DC("lon", "available"), DC("rbx", "available")>>),
      Record("24sk20.hdd", "24sk20", <<DC("rbx", "available"), DC("lon", "available")>>) }

OVHCatalogPool ==
    {CatalogFull, CatalogPartial, [CatalogNoCurrency EXCEPT !.Plans = <<Plan24sk20>>]}

\* bot.Send(msg) with the given text: the message is delivered or Send fails
Send(text, delivered) == sent' = Append(sent, [text |-> text, delivered |-> delivered])

InitOVH ==
    /\ pc = "auth"
    /\ allowedUsers \in SeqUpTo(OVHUserPool, MaxUsers)
    /\ userID \in OVHUserPool
    /\ sent = <<>>
    /\ httpIdle
    /\ engineIdle
    /\ helperIdle

UnauthorizedMutant ==
    /\ pc = "auth"
    /\ ~IsUserAllowed(allowedUsers, userID)
    /\ \E delivered \in BOOLEAN : Send(NotAuthorizedText, delivered)
    /\ pc' = "engine"
    /\ UNCHANGED <<datacenter, top, availabilities, catalog, offers, result,
                   plan, fqn, catalogCurrency, ret, fetches, allowedUsers, userID, httpVars>>

\* step 1 for a user who is not allowed: the error message, then return
Unauthorized ==
    /\ pc = "auth"
    /\ ~IsUserAllowed(allowedUsers, userID)
    /\ \E delivered \in BOOLEAN : Send(NotAuthorizedText, delivered)
    /\ pc' = "done"
    /\ UNCHANGED <<datacenter, top, availabilities, catalog, offers, result,
                   plan, fqn, catalogCurrency, ret, fetches, allowedUsers, userID, httpVars>>

\* the same going on to the engine whether or not Send failed
SendStatusMutant ==
    /\ pc = "auth"
    /\ IsUserAllowed(allowedUsers, userID)
    /\ \E delivered \in BOOLEAN : Send(StatusText, delivered)
    /\ pc' = "engine"
    /\ UNCHANGED <<datacenter, top, availabilities, catalog, offers, result,
                   plan, fqn, catalogCurrency, ret, fetches, allowedUsers, userID, httpVars>>

\* steps 1 and 2 for an allowed user: the status message; return if Send fails
SendStatus ==
    /\ pc = "auth"
    /\ IsUserAllowed(allowedUsers, userID)
    /\ \E delivered \in BOOLEAN :
          /\ Send(StatusText, delivered)
          /\ pc' = IF delivered THEN "engine" ELSE "done"
    /\ UNCHANGED <<datacenter, top, availabilities, catalog, offers, result,
                   plan, fqn, catalogCurrency, ret, fetches, allowedUsers, userID, httpVars>>

\* step 3: ovh.GetTopOffers("GB", "lon", 5), the whole call
CallGetTopOffers ==
    /\ pc = "engine"
    /\ datacenter' = "lon"
    /\ top' = OVHTop
    /\ \/ \E outcome \in FetchOutcomes \ {"ok"} :
             /\ fetches' = <<[feed |-> "availabilities", outcome |-> outcome]>>
             /\ result' = [kind |-> "error", offers |-> <<>>,
                           err |-> loadError("availabilities", outcome)]
             /\ UNCHANGED <<availabilities, catalog, offers>>
       \/ \E feed \in SeqUpTo(OVHAvailPool, MaxAvail) :
             \E outcome \in FetchOutcomes \ {"ok"} :
                 /\ availabilities' = feed
                 /\ fetches' = <<[feed |-> "availabilities", outcome |-> "ok"],
                                 [feed |-> "catalog", outcome |-> outcome]>>
                 /\ result' = [kind |-> "error", offers |-> <<>>,
                               err |-> loadError("catalog", outcome)]
                 /\ UNCHANGED <<catalog, offers>>
       \/ \E feed \in SeqUpTo(OVHAvailPool, MaxAvail) :
             \E c \in OVHCatalogPool :
                 \E sorted \in sortSliceOutcomes(
                                   buildOffers(feed, 1, <<>>, plansIndex(c), addonsIndex(c),
                                               getCatalogCurrency(c), "lon")) :
                     /\ availabilities' = feed
                     /\ catalog' = c
                     /\ fetches' = <<[feed |-> "availabilities", outcome |-> "ok"],
                                     [feed |-> "catalog", outcome |-> "ok"]>>
                     /\ offers' = sorted
                     /\ result' = truncate(sorted, OVHTop)
    /\ pc' = "final"
    /\ UNCHANGED <<plan, fqn, catalogCurrency, ret, botVars>>

\* the error message, or step 4: the formatted results
SendFinal ==
    /\ pc = "final"
    /\ \E delivered \in BOOLEAN :
          Send(IF result.kind = "error" THEN FetchFailedText ELSE formatOVHResults(result.offers),
               delivered)
    /\ pc' = "done"
    /\ UNCHANGED <<datacenter, top, availabilities, catalog, offers, result,
                   plan, fqn, catalogCurrency, ret, fetches, allowedUsers, userID, httpVars>>

NextOVH ==
    \/ Unauthorized
    \/ SendStatus
    \/ CallGetTopOffers
    \/ SendFinal

SpecOVH == InitOVH /\ [][NextOVH]_vars

(***************************************************************************)
(* Two invocations of GetTopOffers running concurrently.  The variables of *)
(* one invocation become functions of the call; the steps of the two calls *)
(* interleave in any order.                                                *)
(***************************************************************************)
MaxConcAvail == 2   \* longest availability feed of a concurrent invocation

Calls == {1, 2}

ConcAvailPool ==
    { Record("24sk10.ram-16g", "24sk10", <<DC("lon", "available")>>),
      Record("24sk10.ram-32g", "24sk10", <<DC("lon", "available"), DC("rbx", "available")>>) }

ConcCatalogPool == {CatalogFull, CatalogPartial}

ConcTopPool == {1, 2}

slotMutant(c) == 1

\* where call c keeps its slice offers: a local variable of the call
slot(c) == c

InitConc ==
    /\ pc = [c \in Calls |-> "loadAvailabilities"]
    /\ datacenter \in [Calls -> DatacenterPool]
    /\ top \in [Calls -> ConcTopPool]
    /\ availabilities = [c \in Calls |-> <<>>]
    /\ catalog = [c \in Calls |-> NoCatalog]
    /\ offers = [c \in Calls |-> <<>>]
    /\ result = [c \in Calls |-> NoResult]
    /\ fetches = [c \in Calls |-> <<>>]
    /\ helperIdle
    /\ botIdle

ConcLoadAvailabilitiesOk(c) ==
    /\ pc[c] = "loadAvailabilities"
    /\ \E feed \in SeqUpTo(ConcAvailPool, MaxConcAvail) :
          availabilities' = [availabilities EXCEPT ![c] = feed]
    /\ fetches' = [fetches EXCEPT ![c] = Append(@, [feed |-> "availabilities", outcome |-> "ok"])]
    /\ pc' = [pc EXCEPT ![c] = "loadEcoCatalog"]
    /\ UNCHANGED <<datacenter, top, catalog, offers, result, plan, fqn, catalogCurrency, ret,
                   botVars>>

ConcLoadAvailabilitiesFail(c) ==
    /\ pc[c] = "loadAvailabilities"
    /\ \E outcome \in FetchOutcomes \ {"ok"} :
          /\ fetches' = [fetches EXCEPT
                            ![c] = Append(@, [feed |-> "availabilities", outcome |-> outcome])]
          /\ result' = [result EXCEPT
                           ![c] = [kind |-> "error", offers |-> <<>>,
                                   err |-> loadError("availabilities", outcome)]]
    /\ pc' = [pc EXCEPT ![c] = "done"]
    /\ UNCHANGED <<datacenter, top, availabilities, catalog, offers, plan, fqn, catalogCurrency, ret,
                   botVars>>

ConcLoadEcoCatalogOk(c) ==
    /\ pc[c] = "loadEcoCatalog"
    /\ \E cat \in ConcCatalogPool : catalog' = [catalog EXCEPT ![c] = cat]
    /\ fetches' = [fetches EXCEPT ![c] = Append(@, [feed |-> "catalog", outcome |-> "ok"])]
    /\ pc' = [pc EXCEPT ![c] = "buildOffers"]
    /\ UNCHANGED <<datacenter, top, availabilities, offers, result, plan, fqn, catalogCurrency, ret,
                   botVars>>

ConcLoadEcoCatalogFail(c) ==
    /\ pc[c] = "loadEcoCatalog"
    /\ \E outcome \in FetchOutcomes \ {"ok"} :
          /\ fetches' = [fetches EXCEPT ![c] = Append(@, [feed |-> "catalog", outcome |-> outcome])]
          /\ result' = [result EXCEPT
                           ![c] = [kind |-> "error", offers |-> <<>>,
                                   err |-> loadError("catalog", outcome)]]
    /\ pc' = [pc EXCEPT ![c] = "done"]
    /\ UNCHANGED <<datacenter, top, availabilities, catalog, offers, plan, fqn, catalogCurrency, ret,
                   botVars>>

ConcBuildOffers(c) ==
    /\ pc[c] = "buildOffers"
    /\ offers' = [offers EXCEPT
                     ![slot(c)] = buildOffers(availabilities[c], 1, <<>>, plansIndex(catalog[c]),
                                              addonsIndex(catalog[c]),
                                              getCatalogCurrency(catalog[c]), datacenter[c])]
    /\ pc' = [pc EXCEPT ![c] = "sort"]
    /\ UNCHANGED <<datacenter, top, availabilities, catalog, result, plan, fqn, catalogCurrency, ret,
                   fetches, botVars>>

ConcSortOffers(c) ==
    /\ pc[c] = "sort"
    /\ \E sorted \in sortSliceOutcomes(offers[slot(c)]) :
          offers' = [offers EXCEPT ![slot(c)] = sorted]
    /\ pc' = [pc EXCEPT ![c] = "return"]
    /\ UNCHANGED <<datacenter, top, availabilities, catalog, result, plan, fqn, catalogCurrency, ret,
                   fetches, botVars>>

ConcReturnTop(c) ==
    /\ pc[c] = "return"
    /\ result' = [result EXCEPT ![c] = truncate(offers[slot(c)], top[c])]
    /\ pc' = [pc EXCEPT ![c] = "done"]
    /\ UNCHANGED <<datacenter, top, availabilities, catalog, offers, plan, fqn, catalogCurrency, ret,
                   fetches, botVars>>

NextConc ==
    \E c \in Calls :
        \/ ConcLoadAvailabilitiesOk(c)
        \/ ConcLoadAvailabilitiesFail(c)
        \/ ConcLoadEcoCatalogOk(c)
        \/ ConcLoadEcoCatalogFail(c)
        \/ ConcBuildOffers(c)
        \/ ConcSortOffers(c)
        \/ ConcReturnTop(c)

SpecConc == InitConc /\ [][NextConc]_vars

(***************************************************************************)
(* computeTotalMonthly called on plans whose mandatory families share      *)
(* names: "memory" twice, and "" and "unknown", both filed under "unknown" *)
(***************************************************************************)
MaxSameName == 2    \* most families of the plan

SameNamePool ==
    { FamMemory,
      Family("memory", TRUE, <<>>, "ram-32g-24sk10"),
      Family("memory", TRUE, <<"softraid-24sk10">>, ""),
      Family("", TRUE, <<>>, "ram-16g-24sk10"),
      Family("", TRUE, <<"softraid-24sk10">>, "bw-none"),
      Family("unknown", TRUE, <<>>, "ram-32g-24sk10"),
      Family("memory", FALSE, <<>>, "softraid-24sk10") }

SameNameFqnPool == {"24sk10.ram-16g", "24sk10.ram-32g", "24sk10.ram-16g.softraid"}

SameNameAddons ==
    <<AddonRam16, AddonRam32,
      MkPlan("softraid-24sk10", "", "", <<>>, <<Tier(1, "month", "", 20000000)>>)>>

InitSameName ==
    /\ pc = "call"
    /\ \E families \in SeqUpTo(SameNamePool, MaxSameName) :
          /\ plan = MkPlan("24sk10", "KS-1", "", families, <<CheapMonthlyTier>>)
          /\ catalog = [Locale |-> [CurrencyCode |-> "GBP"],
                        Plans |-> <<plan>>,
                        Addons |-> SameNameAddons]
    /\ fqn \in SameNameFqnPool
    /\ datacenter = "" /\ top = 0 /\ availabilities = <<>>
    /\ offers = <<>> /\ result = NoResult /\ fetches = <<>>
    /\ catalogCurrency = ""
    /\ ret = NoRet
    /\ botIdle

CallComputeTotalMonthlySameName ==
    /\ pc = "call"
    /\ LET r == computeTotalMonthly(plansIndex(catalog), addonsIndex(catalog),
                                    plan.PlanCode, fqn, getCatalogCurrency(catalog))
       IN ret' = [kind |-> "total", total |-> r.total, addons |-> r.addons, err |-> r.err]
    /\ pc' = "returned"
    /\ UNCHANGED <<datacenter, top, availabilities, catalog, offers, result,
                   plan, fqn, catalogCurrency, fetches, botVars>>

NextSameName == CallComputeTotalMonthlySameName

SpecSameName == InitSameName /\ [][NextSameName]_vars

(***************************************************************************)
(* webhookHandler serving one request: the method test, the decoding of    *)
(* the body, RouteUpdate, the handler it picks, and the answer.  A pointer *)
(* is a sequence of no element (nil) or one.  Emoji are written by their   *)
(* short names.                                                            *)
(***************************************************************************)
User(id, firstName) == [ID |-> id, FirstName |-> firstName]

Entity(type, offset, length) == [Type |-> type, Offset |-> offset, Length |-> length]

Msg(from, text, entities) == [From |-> from, Text |-> text, Entities |-> entities]

Upd(message, editedMessage, callbackQuery) ==
    [Message |-> message, EditedMessage |-> editedMessage, CallbackQuery |-> callbackQuery]

\* json.NewDecoder(r.Body).Decode(&update): fields that are absent stay nil
Decode(body) ==
    IF body.json = "object" THEN [err |-> FALSE, update |-> body.update]
    ELSE [err |-> TRUE, update |-> Upd(<<>>, <<>>, <<>>)]

\* Message.IsCommand of the bot API library: the first entity is a
\* bot_command at offset 0
IsCommand(message) ==
    /\ Len(message.Entities) > 0
    /\ message.Entities[1].Offset = 0
    /\ message.Entities[1].Type = "bot_command"

\* Message.Command: the text of that entity without the slash, up to an "@"
Command(message) ==
    IF ~IsCommand(message) THEN ""
    ELSE LET withAt == SubSeq(message.Text, 2, message.Entities[1].Length)
             ats == {a \in 1..Len(withAt) : SubSeq(withAt, a, a) = "@"}
         IN IF ats = {} THEN withAt
            ELSE SubSeq(withAt, 1, (CHOOSE a \in ats : \A b \in ats : a <= b) - 1)

DiceLabel == ":game_die: Dice"

DoubleDiceLabel == ":game_die::game_die: Double Dice"

TwisterLabel == ":cyclone: Twister"

OVHLabel == ":desktop_computer: OVH Servers"

\* a switch that takes a label for matched when the text begins with it
routeButtonMessagePrefixMutant(message) ==
    LET begins(label) == /\ Len(message.Text) >= Len(label)
                         /\ SubSeq(message.Text, 1, Len(label)) = label
    IN IF begins(DoubleDiceLabel) THEN "HandleDoubleDice"
       ELSE IF begins(DiceLabel) THEN "HandleDice"
       ELSE IF begins(TwisterLabel) THEN "HandleTwister"
       ELSE IF begins(OVHLabel) THEN "HandleOVHCheck"
       ELSE "none"

\* the switch on message.Text: the handler called, "none" for the default
routeButtonMessage(message) ==
    CASE message.Text = DiceLabel -> "HandleDice"
      [] message.Text = DoubleDiceLabel -> "HandleDoubleDice"
      [] message.Text = TwisterLabel -> "HandleTwister"
      [] message.Text = OVHLabel -> "HandleOVHCheck"
      [] OTHER -> "none"

\* the switch on message.Command(), or the button switch
routeMessage(message) ==
    IF IsCommand(message)
    THEN CASE Command(message) = "start" -> "HandleStart"
           [] Command(message) = "help" -> "HandleHelp"
           [] OTHER -> "sendUnknownCommandMessage"
    ELSE routeButtonMessage(message)

formatStartMessage(firstName) ==
    ":wave: Hello, " \o (IF firstName = "" THEN "there" ELSE firstName) \o "!\n\n"
    \o "Welcome to Run-Tbot - an educational Telegram bot built with Go.\n\n"
    \o "Try these features using the keyboard below:\n"
    \o ":game_die: Dice - Roll a single die (1-6)\n"
    \o ":game_die::game_die: Double Dice - Roll two dice (2-12)\n"
    \o ":cyclone: Twister - Get a random Twister move\n"
    \o ":desktop_computer: OVH Servers - Check server availability"

formatHelpMessage(isAuthorized) ==
    "*:book: Available Commands*\n\n"
    \o "*Public Commands:*\n"
    \o "/start \\- Start the bot and see welcome message\n"
    \o "/help \\- Show this help message\n"
    \o ":game_die: Roll Dice \\- Click the button to roll a dice \\(1\\-6\\)\n"
    \o (IF isAuthorized
        THEN "\n*:closed_lock_with_key: Private Commands:*\n"
             \o "_No private commands implemented yet\\._\n"
             \o "_Future features will appear here\\._\n"
        ELSE "")
    \o "\n"
    \o "_This is an educational bot built with Go\\._\n"
    \o "_Source code demonstrates best practices for Telegram bots\\._"

UnknownCommandText == ":question: Unknown command. Use /help to see available commands."

DiceText(r) == ":game_die: You rolled: " \o ToString(r)

DoubleDiceText(dice1, dice2) ==
    ":game_die::game_die: You rolled: " \o ToString(dice1) \o " + " \o ToString(dice2)
    \o " = *" \o ToString(dice1 + dice2) \o "*"

Faces == 1..6

limbs == <<"Left Hand", "Right Hand", "Left Foot", "Right Foot">>

colors == <<"Red", "Blue", "Green", "Yellow">>

emojis == <<":red_circle:", ":large_blue_circle:", ":green_circle:", ":yellow_circle:">>

TwisterText(limb, colorIndex) ==
    ":cyclone: *Twister Move*\n\n" \o emojis[colorIndex] \o " " \o limb \o " " \o colors[colorIndex]

\* the updates Telegram, or anyone who knows the address, may post
WebhookUsers == {User(12345, "Test"), User(99999, "")}

CommandEntity(length) == <<Entity("bot_command", 0, length)>>

TextPool ==
    { <<"/start", CommandEntity(6)>>,
      <<"/help", CommandEntity(5)>>,
      <<"/unknown", CommandEntity(8)>>,
      <<"/help@run_tbot now", CommandEntity(14)>>,
      <<"/Start", CommandEntity(6)>>,
      <<"/start", <<>>>>,
      <<"say /start", <<Entity("bot_command", 4, 6)>>>>,
      <<DiceLabel, <<>>>>,
      <<DoubleDiceLabel, <<>>>>,
      <<TwisterLabel, <<>>>>,
      <<OVHLabel, <<>>>>,
      <<TwisterLabel \o " ", <<>>>>,
      <<":game_die: dice", <<>>>>,
      <<"Hello bot!", <<>>>>,
      <<"", <<>>>> }

MessagePool ==
    { Msg(from, t[1], t[2]) : from \in {<<>>} \cup {<<u>> : u \in WebhookUsers}, t \in TextPool }

EditedPool ==
    { Msg(<<User(12345, "Test")>>, "/start", CommandEntity(6)),
      Msg(<<>>, DiceLabel, <<>>) }

UpdatePool ==
    { Upd(message, edited, callback) :
        message \in {<<>>} \cup {<<m>> : m \in MessagePool},
        edited \in {<<>>} \cup {<<m>> : m \in EditedPool},
        callback \in {<<>>, <<"roll_dice">>} }

BodyPool == {[json |-> "malformed"]} \cup {[json |-> "object", update |-> u] : u \in UpdatePool}

MethodPool == {"POST", "GET", "PUT"}

WebhookAllowedUsers == <<12345>>

InitWebhook ==
    /\ pc = "serve"
    /\ request \in {[Method |-> m, Body |-> b] : m \in MethodPool, b \in BodyPool}
    /\ response = 0
    /\ invoked = <<>>
    /\ allowedUsers = WebhookAllowedUsers
    /\ userID = 0
    /\ sent = <<>>
    /\ engineIdle
    /\ helperIdle

\* r.Method != http.MethodPost
MethodNotAllowed ==
    /\ pc = "serve"
    /\ request.Method # "POST"
    /\ response' = 405
    /\ pc' = "answered"
    /\ UNCHANGED <<datacenter, top, availabilities, catalog, offers, result, plan, fqn,
                   catalogCurrency, ret, fetches, allowedUsers, userID, sent, request, invoked>>

\* Decode returns an error
DecodeFailed ==
    /\ pc = "serve"
    /\ request.Method = "POST"
    /\ Decode(request.Body).err
    /\ response' = 200
    /\ pc' = "answered"
    /\ UNCHANGED <<datacenter, top, availabilities, catalog, offers, result, plan, fqn,
                   catalogCurrency, ret, fetches, allowedUsers, userID, sent, request, invoked>>

\* the pc at which the handler h starts
entryOf(h) == IF h = "none" THEN "routed" ELSE IF h = "HandleOVHCheck" THEN "auth" ELSE h

\* RouteUpdate up to the call of a handler.  message.From.ID is evaluated
\* for the log line before either switch, and EditedMessage.From.ID for the
\* log line of an edited message: with From nil the goroutine panics, the
\* server closes the connection and nothing is written
RouteUpdate ==
    /\ pc = "serve"
    /\ request.Method = "POST"
    /\ ~Decode(request.Body).err
    /\ LET update == Decode(request.Body).update
       IN IF update.Message # <<>>
          THEN LET message == update.Message[1]
               IN IF message.From = <<>>
                  THEN /\ invoked' = <<"RouteUpdate">>
                       /\ pc' = "aborted"
                       /\ UNCHANGED userID
                  ELSE /\ userID' = message.From[1].ID
                       /\ invoked' = IF routeMessage(message) = "none" THEN <<"RouteUpdate">>
                                     ELSE <<"RouteUpdate", routeMessage(message)>>
                       /\ pc' = entryOf(routeMessage(message))
          ELSE /\ invoked' = <<"RouteUpdate">>
               /\ pc' = IF update.EditedMessage # <<>> /\ update.EditedMessage[1].From = <<>>
                        THEN "aborted" ELSE "routed"
               /\ UNCHANGED userID
    /\ UNCHANGED <<datacenter, top, availabilities, catalog, offers, result, plan, fqn,
                   catalogCurrency, ret, fetches, allowedUsers, sent, request, response>>

\* the message of the update being served
served == Decode(request.Body).update.Message[1]

handlerRest ==
    UNCHANGED <<datacenter, top, availabilities, catalog, offers, result, plan, fqn,
                catalogCurrency, ret, fetches, allowedUsers, userID, httpVars>>

HandleStart ==
    /\ pc = "HandleStart"
    /\ \E delivered \in BOOLEAN : Send(formatStartMessage(served.From[1].FirstName), delivered)
    /\ pc' = "routed"
    /\ handlerRest

HandleHelp ==
    /\ pc = "HandleHelp"
    /\ \E delivered \in BOOLEAN :
          Send(formatHelpMessage(IsUserAllowed(allowedUsers, served.From[1].ID)), delivered)
    /\ pc' = "routed"
    /\ handlerRest

sendUnknownCommandMessage ==
    /\ pc = "sendUnknownCommandMessage"
    /\ \E delivered \in BOOLEAN : Send(UnknownCommandText, delivered)
    /\ pc' = "routed"
    /\ handlerRest

HandleDice ==
    /\ pc = "HandleDice"
    /\ \E r \in Faces, delivered \in BOOLEAN : Send(DiceText(r), delivered)
    /\ pc' = "routed"
    /\ handlerRest

HandleDoubleDice ==
    /\ pc = "HandleDoubleDice"
    /\ \E dice1 \in Faces, dice2 \in Faces, delivered \in BOOLEAN :
          Send(DoubleDiceText(dice1, dice2), delivered)
    /\ pc' = "routed"
    /\ handlerRest

HandleTwister ==
    /\ pc = "HandleTwister"
    /\ \E l \in DOMAIN limbs, c \in DOMAIN colors, delivered \in BOOLEAN :
          Send(TwisterText(limbs[l], c), delivered)
    /\ pc' = "routed"
    /\ handlerRest

\* RouteUpdate returned (HandleOVHCheck ends at "done"): w.WriteHeader(200)
Respond ==
    /\ pc \in {"routed", "done"}
    /\ response' = 200
    /\ pc' = "answered"
    /\ UNCHANGED <<datacenter, top, availabilities, catalog, offers, result, plan, fqn,
                   catalogCurrency, ret, fetches, allowedUsers, userID, sent, request, invoked>>

NextWebhook ==
    \/ MethodNotAllowed
    \/ DecodeFailed
    \/ RouteUpdate
    \/ HandleStart
    \/ HandleHelp
    \/ sendUnknownCommandMessage
    \/ HandleDice
    \/ HandleDoubleDice
    \/ HandleTwister
    \/ Unauthorized
    \/ SendStatus
    \/ CallGetTopOffers
    \/ SendFinal
    \/ Respond

SpecWebhook == InitWebhook /\ [][NextWebhook]_vars

(***************************************************************************)
(* What the claims speak of, stated from the feeds alone.                  *)
(***************************************************************************)
Min(a, b) == IF a < b THEN a ELSE b

returnedOk == pc = "done" /\ result.kind = "ok"

\* a <= b on prices
PriceLeq(a, b) == a.whole < b.whole \/ (a.whole = b.whole /\ a.frac <= b.frac)

\* the price with the value micro / MicroPerUnit
IsAmount(price, micro) ==
    /\ price.frac \in 0..(MicroPerUnit - 1)
    /\ price.whole * MicroPerUnit + price.frac = micro

\* the positions of the canonical monthly tiers of a list of tiers
MonthlyPositions(pricings) ==
    {i \in 1..Len(pricings) : pricings[i].Interval = 1 /\ pricings[i].IntervalUnit = "month"}

LegacyPositions(pricings) == {i \in 1..Len(pricings) : pricings[i].Duration = "P1M"}

Least(S) == CHOOSE i \in S : \A j \in S : i <= j

Priceable(p) == MonthlyPositions(p.Pricings) # {} \/ LegacyPositions(p.Pricings) # {}

\* the micro-units of the tier the pricing policy names (of a priceable plan)
MonthlyMicro(p) ==
    IF MonthlyPositions(p.Pricings) # {}
    THEN p.Pricings[Least(MonthlyPositions(p.Pricings))].Price
    ELSE p.Pricings[Least(LegacyPositions(p.Pricings))].Price

BaseCodes == {catalog.Plans[i].PlanCode : i \in 1..Len(catalog.Plans)}

AddonCodes == {catalog.Addons[i].PlanCode : i \in 1..Len(catalog.Addons)}

\* the plan the index holds for a code of the pool: the last one listed with it
LastWith(pool, code) ==
    pool[CHOOSE i \in 1..Len(pool) :
            /\ pool[i].PlanCode = code
            /\ \A j \in (i + 1)..Len(pool) : pool[j].PlanCode # code]

HasStock(r) ==
    \E d \in 1..Len(r.Datacenters) :
        /\ r.Datacenters[d].Datacenter = datacenter
        /\ r.Datacenters[d].Availability # "unavailable"

\* the record passes every filter of the join
Matches(r) ==
    /\ r.FQN # "" /\ r.PlanCode # ""
    /\ r.PlanCode \in BaseCodes
    /\ HasStock(r)
    /\ Priceable(LastWith(catalog.Plans, r.PlanCode))

MatchCount == Cardinality({i \in 1..Len(availabilities) : Matches(availabilities[i])})

IsOfferOf(o, r) == o.FQN = r.FQN /\ o.PlanCode = r.PlanCode

InResult(r) == \E k \in 1..Len(result.offers) : IsOfferOf(result.offers[k], r)

\* C1: a successful result is in ascending order of total price
C1_Ascending ==
    returnedOk =>
        \A i \in 2..Len(result.offers) :
            PriceLeq(result.offers[i - 1].Price, result.offers[i].Price)

\* the feed listed the dearer unit first and the result lists it second
C1_Witness ==
    /\ returnedOk
    /\ Len(result.offers) >= 2
    /\ PriceLeq(result.offers[1].Price, result.offers[2].Price)
    /\ result.offers[1].Price # result.offers[2].Price
    /\ \E i, j \in 1..Len(availabilities) :
          /\ i < j
          /\ IsOfferOf(result.offers[2], availabilities[i])
          /\ IsOfferOf(result.offers[1], availabilities[j])

\* C2: for top >= 0 and two fetched feeds the result has min(top, M) offers,
\* M the number of records that pass all filters
C2_Length ==
    (pc = "done" /\ result.kind # "error" /\ top >= 0) =>
        /\ result.kind = "ok"
        /\ Len(result.offers) = Min(top, MatchCount)

C2_Witness ==
    /\ returnedOk
    /\ top = 2
    /\ MatchCount = 3
    /\ Len(result.offers) = 2

\* the stable sort: x goes after every element that is not dearer than x
RECURSIVE InsertStable(_, _)
InsertStable(s, x) ==
    IF s = <<>> THEN <<x>>
    ELSE IF PriceLeq(s[Len(s)].Price, x.Price) THEN Append(s, x)
    ELSE Append(InsertStable(SubSeq(s, 1, Len(s) - 1), x), s[Len(s)])

RECURSIVE StableSort(_)
StableSort(s) ==
    IF s = <<>> THEN <<>>
    ELSE InsertStable(StableSort(SubSeq(s, 1, Len(s) - 1)), s[Len(s)])

\* the offers of the matching records, in the order of the feed
EncounterOrder ==
    buildOffers(availabilities, 1, <<>>, plansIndex(catalog), addonsIndex(catalog),
                getCatalogCurrency(catalog), datacenter)

\* C3: offers of equal total price keep the order of the feed, in the sorted
\* list and in what survives the truncation
C3_StableOrder ==
    returnedOk =>
        result.offers = SubSeq(StableSort(EncounterOrder), 1, Len(result.offers))

\* C4: no offer has a plan code that is absent from the catalog's base plans,
\* also when the code is the code of an addon
C4_PlanInBaseIndex ==
    returnedOk => \A k \in 1..Len(result.offers) : result.offers[k].PlanCode \in BaseCodes

\* a unit in stock whose plan code is an addon's code only is left out of a
\* result that was not cut short
C4_Witness ==
    /\ returnedOk
    /\ top >= Len(availabilities)
    /\ result.offers # <<>>
    /\ \E i \in 1..Len(availabilities) :
          LET r == availabilities[i]
          IN /\ r.FQN # "" /\ HasStock(r)
             /\ r.PlanCode \in AddonCodes \ BaseCodes
             /\ ~InResult(r)

OnlyOtherDatacenters ==
    \A i \in 1..Len(availabilities) :
        \A d \in 1..Len(availabilities[i].Datacenters) :
            availabilities[i].Datacenters[d].Datacenter # datacenter

\* C5: every offer is the offer of a record with an entry for the requested
\* datacenter whose status is not "unavailable"; a feed that lists other
\* datacenters only yields an empty result
C5_DatacenterFilter ==
    returnedOk =>
        /\ \A k \in 1..Len(result.offers) :
              \E i \in 1..Len(availabilities) :
                  /\ IsOfferOf(result.offers[k], availabilities[i])
                  /\ HasStock(availabilities[i])
        /\ OnlyOtherDatacenters => result.offers = <<>>

\* a priceable unit in stock in another datacenter only is left out of a
\* result that was not cut short
C5_Witness ==
    /\ returnedOk
    /\ top >= Len(availabilities)
    /\ result.offers # <<>>
    /\ \E i \in 1..Len(availabilities) :
          LET r == availabilities[i]
          IN /\ r.FQN # "" /\ r.PlanCode \in BaseCodes
             /\ Priceable(LastWith(catalog.Plans, r.PlanCode))
             /\ \E d \in 1..Len(r.Datacenters) :
                   /\ r.Datacenters[d].Datacenter # datacenter
                   /\ r.Datacenters[d].Availability = "available"
             /\ ~HasStock(r)
             /\ ~InResult(r)

\* a record that passes the first three filters and whose base plan has no
\* canonical monthly tier
Unpriceable(r) ==
    /\ r.FQN # "" /\ r.PlanCode \in BaseCodes /\ HasStock(r)
    /\ ~Priceable(LastWith(catalog.Plans, r.PlanCode))

\* C6: a matched record whose base plan has no canonical monthly tier is left
\* out, and the call still succeeds with the offers of the other records
C6_UnpriceableExcluded ==
    (pc = "done" /\ result.kind # "error" /\ top >= 0) =>
        /\ result.kind = "ok"
        /\ \A i \in 1..Len(availabilities) :
              Unpriceable(availabilities[i]) => ~InResult(availabilities[i])
        /\ top >= Len(availabilities) =>
              \A i \in 1..Len(availabilities) :
                  Matches(availabilities[i]) => InResult(availabilities[i])

C6_Witness ==
    /\ returnedOk
    /\ top >= Len(availabilities)
    /\ \E i, j \in 1..Len(availabilities) :
          /\ Unpriceable(availabilities[i])
          /\ ~InResult(availabilities[i])
          /\ Matches(availabilities[j])
          /\ InResult(availabilities[j])

\* C7: once both fetches succeeded the call returns no error, and with no
\* record surviving the filters it returns an empty list and a nil error
C7_NoErrorAfterFetch ==
    [][pc = "return" =>
          /\ result'.kind # "error"
          /\ MatchCount = 0 => (result'.kind = "ok" /\ result'.offers = <<>>)]_vars

\* a feed that is not empty and of which no record survives
C7_Witness ==
    /\ returnedOk
    /\ availabilities # <<>>
    /\ catalog.Plans # <<>>
    /\ MatchCount = 0
    /\ result.offers = <<>>
    /\ result.err = ""

\* C8: priceForPlan returns the first tier with interval 1 and unit "month",
\* else the first tier with duration "P1M", else an error with price 0; the
\* amount is the tier's micro-units divided by 100000000 (1599000000 gives
\* 15.99, 999000000 gives 9.99) and the currency is the one passed in
C8_PriceForPlan ==
    pc = "returned" =>
        IF Priceable(plan)
        THEN /\ ~ret.err
             /\ IsAmount(ret.price, MonthlyMicro(plan))
             /\ ret.currency = catalogCurrency
             /\ MonthlyMicro(plan) = 1599000000 => ret.price = [whole |-> 15, frac |-> 99000000]
             /\ MonthlyMicro(plan) = 999000000 => ret.price = [whole |-> 9, frac |-> 99000000]
        ELSE ret.err /\ ret.price = [whole |-> 0, frac |-> 0]

\* a "P1M" tier listed before the interval/unit monthly tier, which wins
C8_Witness ==
    /\ pc = "returned"
    /\ Len(plan.Pricings) >= 2
    /\ plan.Pricings[1].Duration = "P1M"
    /\ plan.Pricings[1].Price = 999000000
    /\ plan.Pricings[2].Interval = 1 /\ plan.Pricings[2].IntervalUnit = "month"
    /\ ~ret.err
    /\ ret.price = [whole |-> 15, frac |-> 99000000]

\* the micro-units an addon code selected for an offer adds to the total
AddonMicro(code) ==
    IF code \in AddonCodes /\ Priceable(LastWith(catalog.Addons, code))
    THEN MonthlyMicro(LastWith(catalog.Addons, code))
    ELSE 0

RECURSIVE SumAddonMicro(_, _)
SumAddonMicro(addons, names) ==
    IF names = {} THEN 0
    ELSE LET n == CHOOSE x \in names : TRUE
         IN AddonMicro(addons[n]) + SumAddonMicro(addons, names \ {n})

ExpectedMicro(o) ==
    MonthlyMicro(LastWith(catalog.Plans, o.PlanCode)) + SumAddonMicro(o.Addons, DOMAIN o.Addons)

\* C9: the total of an offer is the base plan's monthly price plus the monthly
\* price of every selected addon that is in the addon index and has a monthly
\* tier; the other selected addons add nothing and the record is not dropped
C9_TotalPrice ==
    returnedOk =>
        /\ \A k \in 1..Len(result.offers) :
              IsAmount(result.offers[k].Price, ExpectedMicro(result.offers[k]))
        /\ top >= Len(availabilities) =>
              \A i \in 1..Len(availabilities) :
                  Matches(availabilities[i]) => InResult(availabilities[i])

\* one offer with a priced addon, one with a selected addon that is not in
\* the addon index, one with a selected addon that has no monthly tier
C9_Witness ==
    /\ returnedOk
    /\ \E k \in 1..Len(result.offers) :
          \E n \in DOMAIN result.offers[k].Addons :
              AddonMicro(result.offers[k].Addons[n]) > 0
    /\ \E k \in 1..Len(result.offers) :
          \E n \in DOMAIN result.offers[k].Addons :
              result.offers[k].Addons[n] \notin AddonCodes
    /\ \E k \in 1..Len(result.offers) :
          \E n \in DOMAIN result.offers[k].Addons :
              /\ result.offers[k].Addons[n] \in AddonCodes
              /\ ~Priceable(LastWith(catalog.Addons, result.offers[k].Addons[n]))

\* t is a variant suffix: a hyphen, two digits, lowercase letters, optional
\* digits, optional -v<digits>
IsVariantSuffix(t) ==
    /\ Len(t) >= 4
    /\ Ch(t, 1) = "-" /\ Ch(t, 2) \in Digits /\ Ch(t, 3) \in Digits
    /\ \E j \in 5..(Len(t) + 1) :
          \E k \in j..(Len(t) + 1) :
              /\ \A x \in 4..(j - 1) : Ch(t, x) \in LowerLetters
              /\ \A x \in j..(k - 1) : Ch(t, x) \in Digits
              /\ \/ k = Len(t) + 1
                 \/ /\ k + 2 <= Len(t)
                    /\ Ch(t, k) = "-" /\ Ch(t, k + 1) = "v"
                    /\ \A x \in (k + 2)..Len(t) : Ch(t, x) \in Digits

SuffixStarts(c) == {n \in 1..Len(c) : IsVariantSuffix(SubSeq(c, n, Len(c)))}

Stripped(c) ==
    LET starts == SuffixStarts(c)
    IN IF starts = {} THEN c ELSE SubSeq(c, 1, Least(starts) - 1)

\* sub, not empty, occurs in s
Occurs(sub, s) ==
    /\ sub # ""
    /\ \E a \in 1..Len(s) : a + Len(sub) - 1 <= Len(s) /\ SubSeq(s, a, a + Len(sub) - 1) = sub

Qualifies(c, id) ==
    \/ Occurs(c, id)
    \/ LET base == Stripped(c) IN base # c /\ Occurs(base, id)

\* the code the resolution rule selects for a family ("" for none)
Selection(fam, id) ==
    LET Q == {k \in 1..Len(fam.Addons) : Qualifies(fam.Addons[k], id)}
    IN IF Q # {} THEN fam.Addons[Least(Q)] ELSE fam.Default

NameOf(fam) == IF fam.Name = "" THEN "unknown" ELSE fam.Name

\* C10: a mandatory family selects its first candidate that occurs in the
\* identifier verbatim or in its stripped form (when stripping changed it),
\* recorded unstripped, else its default; other families add no entry
C10_Selection ==
    pc = "returned" =>
        LET fams == plan.AddonFamilies
            sel == [i \in 1..Len(fams) |-> Selection(fams[i], fqn)]
            Yields(i) == fams[i].Mandatory /\ sel[i] # ""
        IN /\ \A n \in DOMAIN ret.addons :
                 \E i \in 1..Len(fams) :
                     Yields(i) /\ NameOf(fams[i]) = n /\ ret.addons[n] = sel[i]
           /\ \A i \in 1..Len(fams) :
                 (Yields(i) /\ \A j \in (i + 1)..Len(fams) :
                                   ~(Yields(j) /\ NameOf(fams[j]) = NameOf(fams[i])))
                 => /\ NameOf(fams[i]) \in DOMAIN ret.addons
                    /\ ret.addons[NameOf(fams[i])] = sel[i]

\* the first candidate that qualifies does so by its stripped form only, a
\* later one occurs verbatim, and a family that is not mandatory is passed over
C10_Witness ==
    /\ pc = "returned"
    /\ Len(plan.AddonFamilies) = 2
    /\ LET f == plan.AddonFamilies[1]
           g == plan.AddonFamilies[2]
       IN /\ f.Mandatory /\ Len(f.Addons) = 3
          /\ ~Qualifies(f.Addons[1], fqn)
          /\ ~Occurs(f.Addons[2], fqn) /\ Occurs(Stripped(f.Addons[2]), fqn)
          /\ Occurs(f.Addons[3], fqn)
          /\ ~g.Mandatory /\ g.Default # ""
          /\ DOMAIN ret.addons = {NameOf(f)}
          /\ ret.addons[NameOf(f)] = f.Addons[2]

\* C11: two calls of computeTotalMonthly on the same indexes, plan code,
\* unit identifier and currency return the same total price
C11_SameTotals ==
    ret.kind = "totals" =>
        \A i, j \in DOMAIN ret.totals : ret.totals[i] = ret.totals[j]

\* the fetches that ended in a fetch or decode failure
FailedFetches == {i \in DOMAIN fetches : fetches[i].outcome # "ok"}

OtherFeed(feed) == IF feed = "availabilities" THEN "catalog" ELSE "availabilities"

\* C12: the call returns an error, and no offers, exactly when a feed could not
\* be fetched or decoded; the error names that feed and not the other one; with
\* both feeds loaded no record of the join makes the call fail
C12_ErrorIffFeedFailed ==
    pc = "done" =>
        /\ result.kind = "error" <=> FailedFetches # {}
        /\ result.kind = "error" =>
              /\ result.offers = <<>>
              /\ \A i \in FailedFetches :
                    /\ Occurs(fetches[i].feed, result.err)
                    /\ ~Occurs(OtherFeed(fetches[i].feed), result.err)

\* both feeds loaded; one record names a plan the catalog lacks, one a plan
\* without monthly price, one selects an addon the catalog lacks, and the call
\* returns its offers without error
C12_Witness ==
    /\ returnedOk
    /\ Len(fetches) = 2 /\ FailedFetches = {}
    /\ \E i \in 1..Len(availabilities) :
          HasStock(availabilities[i]) /\ availabilities[i].PlanCode \notin BaseCodes
    /\ \E i \in 1..Len(availabilities) : Unpriceable(availabilities[i])
    /\ \E k \in 1..Len(result.offers) :
          \E n \in DOMAIN result.offers[k].Addons :
              result.offers[k].Addons[n] \notin AddonCodes

\* C13: the availability feed is fetched first and the catalog second, each at
\* most once; the catalog is fetched only after the availabilities loaded; a
\* failed fetch ends the call at once with nothing joined, and no step of the
\* call follows a failure
C13_FetchOrder ==
    /\ [](/\ Len(fetches) <= 2
          /\ Len(fetches) >= 1 => fetches[1].feed = "availabilities"
          /\ Len(fetches) = 2 => fetches[2].feed = "catalog" /\ fetches[1].outcome = "ok"
          /\ FailedFetches # {} =>
                pc = "done" /\ result.kind = "error" /\ offers = <<>> /\ result.offers = <<>>)
    /\ [][FailedFetches = {}]_vars

\* the availability fetch failed and the call is over without a catalog fetch
C13_Witness ==
    /\ pc = "done"
    /\ Len(fetches) = 1
    /\ fetches[1].feed = "availabilities" /\ fetches[1].outcome # "ok"
    /\ catalog = NoCatalog /\ offers = <<>>

\* C15: all offers of a result carry the catalog's currency code, or "UNKNOWN"
\* when the catalog has none, and never an empty currency
C15_Currency ==
    returnedOk =>
        \A k \in 1..Len(result.offers) :
            /\ result.offers[k].Currency # ""
            /\ result.offers[k].Currency =
                  (IF catalog.Locale.CurrencyCode = "" THEN "UNKNOWN"
                   ELSE catalog.Locale.CurrencyCode)

\* two offers priced from a catalog without currency code
C15_Witness ==
    /\ returnedOk
    /\ catalog.Locale.CurrencyCode = ""
    /\ Len(result.offers) >= 2
    /\ \A k \in 1..Len(result.offers) : result.offers[k].Currency = "UNKNOWN"

\* C16: the keys of the two maps are the codes of the base plans and of the
\* addons; each key maps to the last plan listed with that code in its own
\* pool; an empty catalog gives two empty maps
C16_IndexCatalog ==
    (pc = "returned" /\ ret.kind = "indexes") =>
        /\ DOMAIN ret.plans = BaseCodes
        /\ DOMAIN ret.addons = AddonCodes
        /\ \A code \in BaseCodes : ret.plans[code] = LastWith(catalog.Plans, code)
        /\ \A code \in AddonCodes : ret.addons[code] = LastWith(catalog.Addons, code)
        /\ (catalog.Plans = <<>> /\ catalog.Addons = <<>>) =>
              (DOMAIN ret.plans = {} /\ DOMAIN ret.addons = {})

\* a code listed twice among the base plans, with different plans, and among
\* the addons too, where the addon index holds another plan for it
C16_Witness ==
    /\ pc = "returned" /\ ret.kind = "indexes"
    /\ Len(catalog.Plans) = 2 /\ Len(catalog.Addons) >= 1
    /\ catalog.Plans[1].PlanCode = catalog.Plans[2].PlanCode
    /\ catalog.Plans[1] # catalog.Plans[2]
    /\ catalog.Addons[1].PlanCode = catalog.Plans[1].PlanCode
    /\ ret.plans[catalog.Plans[1].PlanCode] = catalog.Plans[2]
    /\ ret.addons[catalog.Plans[1].PlanCode] # ret.plans[catalog.Plans[1].PlanCode]

\* C19: IsUserAllowed returns true exactly when the id is an element of
\* AllowedUsers, and false for every id when the list is empty
C19_IsUserAllowed ==
    (pc = "returned" /\ ret.kind = "bool") =>
        /\ ret.allowed <=> \E i \in DOMAIN allowedUsers : allowedUsers[i] = userID
        /\ allowedUsers = <<>> => ~ret.allowed

\* the id is the second of two allowed users and the call returned true
C19_Witness ==
    /\ pc = "returned" /\ ret.kind = "bool"
    /\ Len(allowedUsers) = 2
    /\ allowedUsers[1] # userID /\ allowedUsers[2] = userID
    /\ ret.allowed

\* the candidates of a family
Candidates(fam) == {fam.Addons[k] : k \in 1..Len(fam.Addons)}

\* C20: every value of the resolver's map is a non-empty code that is a
\* candidate or the default of a mandatory family with the key as its name
\* ("unknown" for an empty name); a name whose mandatory families all have no
\* qualifying candidate and an empty default is no key
C20_MapEntries ==
    (pc = "returned" /\ ret.kind = "map") =>
        LET fams == plan.AddonFamilies
            mand == {i \in 1..Len(fams) : fams[i].Mandatory}
            names == {NameOf(fams[i]) : i \in 1..Len(fams)} \cup DOMAIN ret.addons
        IN /\ \A n \in DOMAIN ret.addons :
                 /\ ret.addons[n] # ""
                 /\ \E i \in mand :
                       /\ NameOf(fams[i]) = n
                       /\ ret.addons[n] \in Candidates(fams[i]) \cup {fams[i].Default}
           /\ \A n \in names :
                 (\A i \in mand :
                      NameOf(fams[i]) = n =>
                          /\ fams[i].Default = ""
                          /\ \A c \in Candidates(fams[i]) : ~Qualifies(c, fqn))
                     => n \notin DOMAIN ret.addons

\* a mandatory family with candidates, none of them matching, and an empty
\* default leaves no entry, next to a mandatory family with an empty name whose
\* default is recorded under "unknown"
C20_Witness ==
    /\ pc = "returned" /\ ret.kind = "map"
    /\ Len(plan.AddonFamilies) = 2
    /\ LET f == plan.AddonFamilies[1]
           g == plan.AddonFamilies[2]
       IN /\ f.Mandatory /\ f.Name = "memory" /\ f.Default = "" /\ Len(f.Addons) >= 2
          /\ \A c \in Candidates(f) : ~Qualifies(c, fqn)
          /\ g.Mandatory /\ g.Name = "" /\ g.Default # ""
          /\ \A c \in Candidates(g) : ~Qualifies(c, fqn)
          /\ DOMAIN ret.addons = {"unknown"}
          /\ ret.addons["unknown"] = g.Default

\* the user of the message is listed in AllowedUsers
ListsUser == \E i \in DOMAIN allowedUsers : allowedUsers[i] = userID

\* C17: for a user who is not in the allowed-users list (every user when the
\* list is empty) the handler fetches no feed, gets no engine result, and sends
\* nothing but the not-authorized message, once
C17_AuthorizedOnly ==
    ~ListsUser =>
        /\ fetches = <<>>
        /\ result = NoResult
        /\ Len(sent) <= 1
        /\ \A k \in DOMAIN sent : Occurs("only available to authorized users", sent[k].text)
        /\ pc = "done" => Len(sent) = 1

\* the handler is over for a user who is not among two allowed users
C17_Witness ==
    /\ pc = "done"
    /\ Len(allowedUsers) = 2 /\ ~ListsUser
    /\ Len(sent) = 1 /\ sent[1].text = NotAuthorizedText
    /\ fetches = <<>>

\* the positions at which sub occurs in s
Positions(sub, s) ==
    {a \in 1..(Len(s) - Len(sub) + 1) : SubSeq(s, a, a + Len(sub) - 1) = sub}

\* the start of the entry numbered i in a message: a line that begins with
\* the number, an escaped dot and a blank
EntryMarker(i) == "\n" \o ToString(i) \o "\\. "

\* id is written in s from position a on, from its k-th byte on, each byte
\* bare or behind an escaping backslash
RECURSIVE WrittenAt(_, _, _, _)
WrittenAt(s, a, id, k) ==
    IF k > Len(id) THEN TRUE
    ELSE \/ /\ a <= Len(s) /\ SubSeq(s, a, a) = SubSeq(id, k, k)
            /\ WrittenAt(s, a + 1, id, k + 1)
         \/ /\ a + 1 <= Len(s) /\ SubSeq(s, a, a) = "\\" /\ SubSeq(s, a + 1, a + 1) = SubSeq(id, k, k)
            /\ WrittenAt(s, a + 2, id, k + 1)

\* the internal error, whole and in its parts before and after ": "
ErrorParts(err) ==
    {err} \cup {SubSeq(err, 1, a - 1) : a \in Positions(": ", err)}
          \cup {SubSeq(err, a + 2, Len(err)) : a \in Positions(": ", err)}

\* C18: once the handler is over for an allowed user whose status message was
\* delivered, one further message was sent: for an engine error the "try again
\* later" text without the internal error or a part of it, for an empty list
\* the "No available servers found" text, for n offers a list whose entries are
\* numbered 1..n, in this order, the i-th naming the i-th offer's identifier
C18_FinalMessage ==
    (pc = "done" /\ ListsUser /\ Len(sent) >= 1 /\ sent[1].delivered) =>
        /\ Len(sent) = 2
        /\ LET final == sent[2].text
               n == Len(result.offers)
               start == [i \in 1..(n + 1) |->
                           IF i = n + 1 THEN Len(final) + 1
                           ELSE IF Positions(EntryMarker(i), final) = {} THEN 0
                           ELSE Least(Positions(EntryMarker(i), final))]
           IN /\ result.kind \in {"ok", "error"}
              /\ result.kind = "error" =>
                    /\ Occurs("try again later", final)
                    /\ \A part \in ErrorParts(result.err) : ~Occurs(part, final)
                    /\ Positions(EntryMarker(1), final) = {}
              /\ (result.kind = "ok" /\ n = 0) =>
                    /\ Occurs("No available servers found", final)
                    /\ ~Occurs("try again later", final)
                    /\ Positions(EntryMarker(1), final) = {}
              /\ (result.kind = "ok" /\ n > 0) =>
                    /\ ~Occurs("try again later", final)
                    /\ ~Occurs("No available servers found", final)
                    /\ Positions(EntryMarker(0), final) = {}
                    /\ Positions(EntryMarker(n + 1), final) = {}
                    /\ \A i \in 1..n :
                          /\ Cardinality(Positions(EntryMarker(i), final)) = 1
                          /\ start[i] < start[i + 1]
                          /\ \E a \in start[i]..(start[i + 1] - 1) :
                                /\ WrittenAt(final, a, result.offers[i].FQN, 1)
                                /\ a + Len(result.offers[i].FQN) <= start[i + 1]

\* three offers of different units were listed and the message was delivered
C18_Witness ==
    /\ pc = "done" /\ ListsUser
    /\ Len(sent) = 2 /\ sent[1].delivered /\ sent[2].delivered
    /\ result.kind = "ok" /\ Len(result.offers) = 3
    /\ \A i, j \in 1..3 : i # j => result.offers[i].FQN # result.offers[j].FQN
    /\ Positions(EntryMarker(3), sent[2].text) # {}

\* what one invocation returns when it runs alone on the given feeds
AloneResults(avail, cat, dc, n) ==
    {truncate(s, n) :
        s \in sortSliceOutcomes(buildOffers(avail, 1, <<>>, plansIndex(cat), addonsIndex(cat),
                                            getCatalogCurrency(cat), dc))}

\* C14: whatever the interleaving of two invocations, each of them returns a
\* result it could return running alone on the feeds it fetched (the error of
\* its own failed fetch, or the sorted and truncated join of its own feeds)
C14_NoInterference ==
    \A c \in Calls :
        pc[c] = "done" =>
            LET failed == {i \in DOMAIN fetches[c] : fetches[c][i].outcome # "ok"}
            IN IF failed # {}
               THEN \E i \in failed :
                        result[c] = [kind |-> "error", offers |-> <<>>,
                                     err |-> loadError(fetches[c][i].feed, fetches[c][i].outcome)]
               ELSE result[c] \in AloneResults(availabilities[c], catalog[c],
                                               datacenter[c], top[c])

\* both invocations returned offers, from different feeds and with different
\* results
C14_Witness ==
    /\ \A c \in Calls : pc[c] = "done" /\ result[c].kind = "ok" /\ result[c].offers # <<>>
    /\ availabilities[1] # availabilities[2]
    /\ catalog[1] # catalog[2]
    /\ result[1].offers # result[2].offers

\* the display name the catalog gives the base plan p
DisplayName(p) ==
    IF p.InvoiceName # "" THEN p.InvoiceName
    ELSE IF p.Description # "" THEN p.Description
    ELSE p.PlanCode

\* C21: the display name of an offer is the base plan's invoice name, else its
\* description, else its plan code, and it is never empty
C21_DisplayName ==
    returnedOk =>
        \A k \in 1..Len(result.offers) :
            /\ result.offers[k].InvoiceName =
                  DisplayName(LastWith(catalog.Plans, result.offers[k].PlanCode))
            /\ result.offers[k].InvoiceName # ""

\* one offer named by the description of its plan and one named by the plan
\* code, the plan having neither name
C21_Witness ==
    /\ returnedOk
    /\ \E k \in 1..Len(result.offers) :
          LET p == LastWith(catalog.Plans, result.offers[k].PlanCode)
          IN /\ p.InvoiceName = "" /\ p.Description # ""
             /\ result.offers[k].InvoiceName = p.Description
    /\ \E k \in 1..Len(result.offers) :
          LET p == LastWith(catalog.Plans, result.offers[k].PlanCode)
          IN /\ p.InvoiceName = "" /\ p.Description = ""
             /\ result.offers[k].InvoiceName = result.offers[k].PlanCode
    /\ \E k \in 1..Len(result.offers) :
          LET p == LastWith(catalog.Plans, result.offers[k].PlanCode)
          IN /\ p.InvoiceName # ""
             /\ result.offers[k].InvoiceName = p.InvoiceName

\* C22: every offer of a successful result has a total above zero, whatever
\* amounts the monthly tiers of the catalog carry
C22_PositivePrice ==
    returnedOk =>
        \A k \in 1..Len(result.offers) :
            PriceLess(ZeroPrice, result.offers[k].Price)

\* the offers built from the feed, before and after the ranking
joined == pc \in {"sort", "return"} \/ returnedOk

\* the positions of the feed holding the identifier and plan code of r
SameUnit(r) ==
    {j \in 1..Len(availabilities) : /\ availabilities[j].FQN = r.FQN
                                    /\ availabilities[j].PlanCode = r.PlanCode}

\* the number of entries of r for the requested datacenter that have stock
StockEntries(r) ==
    Cardinality({d \in 1..Len(r.Datacenters) :
                    /\ r.Datacenters[d].Datacenter = datacenter
                    /\ r.Datacenters[d].Availability # "unavailable"})

YieldingOf(p, id) ==
    {i \in 1..Len(p.AddonFamilies) :
        /\ p.AddonFamilies[i].Mandatory
        /\ Selection(p.AddonFamilies[i], id) # ""}

\* the last such family filed under the name n
LastYielding(p, id, n) ==
    CHOOSE i \in YieldingOf(p, id) :
        /\ NameOf(p.AddonFamilies[i]) = n
        /\ \A j \in YieldingOf(p, id) : NameOf(p.AddonFamilies[j]) = n => j <= i

\* what the resolution rule selects for the unit id of plan p, by family name
Resolved(p, id) ==
    LET sel == [i \in 1..Len(p.AddonFamilies) |->
                   IF p.AddonFamilies[i].Mandatory THEN Selection(p.AddonFamilies[i], id) ELSE ""]
        Y == {i \in 1..Len(p.AddonFamilies) : sel[i] # ""}
        last(n) == CHOOSE i \in Y : /\ NameOf(p.AddonFamilies[i]) = n
                                     /\ \A j \in Y : NameOf(p.AddonFamilies[j]) = n => j <= i
    IN [n \in {NameOf(p.AddonFamilies[i]) : i \in Y} |-> sel[last(n)]]

Yielding == YieldingOf(plan, fqn)

LastOfName(n) == LastYielding(plan, fqn, n)

YieldingNames == {NameOf(plan.AddonFamilies[i]) : i \in Yielding}

RECURSIVE SumLastOfNames(_)
SumLastOfNames(names) ==
    IF names = {} THEN 0
    ELSE LET n == CHOOSE x \in names : TRUE
         IN AddonMicro(Selection(plan.AddonFamilies[LastOfName(n)], fqn))
              + SumLastOfNames(names \ {n})

Priced(code) == code \in AddonCodes /\ Priceable(LastWith(catalog.Addons, code))

RECURSIVE SumPriced(_, _)
SumPriced(addons, names) ==
    IF names = {} THEN 0
    ELSE LET n == CHOOSE x \in names : TRUE
         IN (IF Priced(addons[n]) THEN MonthlyMicro(LastWith(catalog.Addons, addons[n])) ELSE 0)
              + SumPriced(addons, names \ {n})

\* C27: the addon map of an offer is everything the resolution rule selects
\* for the unit, priced or not; a selected code that is missing from the
\* addon index or has no monthly tier is in the map and adds nothing
C27_AllSelections ==
    returnedOk =>
        \A k \in 1..Len(result.offers) :
            LET o == result.offers[k]
                p == LastWith(catalog.Plans, o.PlanCode)
                r == Resolved(p, o.FQN)
            IN /\ o.Addons = r
               /\ IsAmount(o.Price, MonthlyMicro(p) + SumPriced(r, DOMAIN r))

\* one offer whose only selection is missing from the addon index and one
\* whose only selection has no monthly tier: both maps hold the code and both
\* totals are the base price
C27_Witness ==
    /\ returnedOk
    /\ \E k \in 1..Len(result.offers) :
          LET o == result.offers[k]
          IN /\ DOMAIN o.Addons = {"unknown"}
             /\ o.Addons["unknown"] \notin AddonCodes
             /\ IsAmount(o.Price, MonthlyMicro(LastWith(catalog.Plans, o.PlanCode)))
    /\ \E k \in 1..Len(result.offers) :
          LET o == result.offers[k]
          IN /\ DOMAIN o.Addons = {"unknown"}
             /\ o.Addons["unknown"] \in AddonCodes
             /\ ~Priced(o.Addons["unknown"])
             /\ IsAmount(o.Price, MonthlyMicro(LastWith(catalog.Plans, o.PlanCode)))

\* the statuses the record lists for the requested datacenter
StatusesHere(r) ==
    {r.Datacenters[d].Availability :
        d \in {e \in 1..Len(r.Datacenters) : r.Datacenters[e].Datacenter = datacenter}}

\* the record passes every filter but the one on stock
Joinable(r) ==
    /\ r.FQN # "" /\ r.PlanCode \in BaseCodes
    /\ Priceable(LastWith(catalog.Plans, r.PlanCode))

\* C28: a joinable record is left out exactly when every status it lists for
\* the requested datacenter is the literal "unavailable"; the empty status
\* and any other string, in any case, make it eligible
C28_StockTest ==
    joined =>
        \A i \in 1..Len(availabilities) :
            Joinable(availabilities[i]) =>
                ((\E k \in 1..Len(offers) : IsOfferOf(offers[k], availabilities[i]))
                    <=> StatusesHere(availabilities[i]) \ {"unavailable"} # {})

\* eligible by an empty status next to an "unavailable" one, eligible by
\* "Unavailable", left out with "unavailable" alone
C28_Witness ==
    /\ pc = "sort"
    /\ Len(availabilities) = 3
    /\ \A i \in 1..3 : Joinable(availabilities[i])
    /\ StatusesHere(availabilities[1]) = {"unavailable", ""}
    /\ StatusesHere(availabilities[2]) = {"Unavailable"}
    /\ StatusesHere(availabilities[3]) = {"unavailable"}
    /\ Len(offers) = 2
    /\ IsOfferOf(offers[1], availabilities[1])
    /\ IsOfferOf(offers[2], availabilities[2])

\* C29: with both feeds fetched, a negative top ends in an empty list without
\* error when no record passes the filters and in a fault of the slice
\* expression otherwise; a top of zero or more never ends in a fault
C29_NegativeTop ==
    /\ result.kind = "panic" => top < 0 /\ pc = "done"
    /\ (pc = "done" /\ FailedFetches = {}) =>
          /\ (top < 0 /\ MatchCount = 0) =>
                result = [kind |-> "ok", offers |-> <<>>, err |-> ""]
          /\ (top < 0 /\ MatchCount > 0) =>
                /\ result.kind = "panic"
                /\ result.offers = <<>>
                /\ result.err = "slice bounds out of range"

\* top = -1 and two records pass: the call faults
C29_Witness ==
    /\ pc = "done"
    /\ top = -1
    /\ MatchCount = 2
    /\ result.kind = "panic"

\* the status message was handed to Send and Send failed
StatusFailed == ListsUser /\ Len(sent) >= 1 /\ ~sent[1].delivered

\* C30: for an allowed user the handler sends the status message, then calls
\* the engine, then sends the final message; the engine is called only after
\* the status message was sent successfully, and when that send fails the
\* handler is over: no feed is fetched and no other message is sent
C30_Order ==
    /\ [](ListsUser =>
            /\ Len(sent) <= 2
            /\ sent = <<>> <=> pc = "auth"
            /\ sent # <<>> => sent[1].text = StatusText
            /\ fetches # <<>> <=> result # NoResult
            /\ fetches # <<>> => sent[1].delivered
            /\ Len(sent) = 2 <=> pc = "done" /\ sent[1].delivered
            /\ Len(sent) = 2 => fetches # <<>>
            /\ StatusFailed => pc = "done" /\ Len(sent) = 1 /\ fetches = <<>>)
    /\ [][~StatusFailed]_vars

\* the status message could not be sent: the handler is over after one
\* message and without a fetch
C30_Witness ==
    /\ StatusFailed
    /\ pc = "done"
    /\ Len(sent) = 1 /\ sent[1].text = StatusText
    /\ fetches = <<>> /\ result = NoResult

\* the request was served to its end: answered, or the connection dropped
finished == pc \in {"answered", "aborted"}

\* C23: every POST is answered with 200, an undecodable one without a call of
\* the router, a decodable one after the router returned whatever the sends
\* did; every other method is answered with 405 and the router is not called
C23_AlwaysOK ==
    /\ (request.Method = "POST" /\ finished) => response = 200
    /\ (request.Method = "POST" /\ Decode(request.Body).err) => invoked = <<>>
    /\ request.Method # "POST" =>
          /\ invoked = <<>>
          /\ finished => response = 405

\* the handlers called, the router left out
handlers == SubSeq(invoked, 2, Len(invoked))

theUpdate == Decode(request.Body).update

Buttons ==
    { <<DiceLabel, "HandleDice">>, <<DoubleDiceLabel, "HandleDoubleDice">>,
      <<TwisterLabel, "HandleTwister">>, <<OVHLabel, "HandleOVHCheck">> }

\* the handler the message alone asks for
ExpectedHandler(m) ==
    IF IsCommand(m)
    THEN IF Command(m) = "start" THEN "HandleStart"
         ELSE IF Command(m) = "help" THEN "HandleHelp"
         ELSE "sendUnknownCommandMessage"
    ELSE IF \E b \in Buttons : b[1] = m.Text
         THEN (CHOOSE b \in Buttons : b[1] = m.Text)[2]
         ELSE "none"

\* how the reply of each handler begins (the replies of HandleOVHCheck are
\* the subject of C17, C18 and C30)
ReplyHead(h) ==
    CASE h = "HandleStart" -> ":wave: Hello, "
      [] h = "HandleHelp" -> "*:book: Available Commands*"
      [] h = "sendUnknownCommandMessage" -> ":question: Unknown command"
      [] h = "HandleDice" -> ":game_die: You rolled: "
      [] h = "HandleDoubleDice" -> ":game_die::game_die: You rolled: "
      [] h = "HandleTwister" -> ":cyclone: *Twister Move*"
      [] OTHER -> ""

====
